---- MODULE Spec2Model ----
(***************************************************************************)
(* A model of ElasticVector (src/src/mastra/stores/elastic-store.ts), the  *)
(* Elasticsearch vector-store adapter, and of the part of the backend it   *)
(* talks to.                                                               *)
(*                                                                         *)
(* Strings the code inspects character by character or builds (metric      *)
(* names, field names, document ids) are sequences of one-character        *)
(* strings; strings the code only passes along (index names handed to the  *)
(* client) are plain TLA+ strings.                                         *)
(***************************************************************************)
EXTENDS Integers, Sequences, FiniteSets, TLC

VARIABLES
  fnOp,    \* SpecFn: the function or operation applied, "idle" before
  fnIn,    \* SpecFn: its input
  fnOut,   \* SpecFn: its result
  config,             \* config.isServerless as given to the constructor
  maxCountAccuracy,   \* this.maxCountAccuracy
  isServerless,       \* this.isServerless: "undefined", "true" or "false"
  deploymentChecked,  \* this.deploymentChecked
  clusterInfo,        \* backend: what a cluster-info request answers
  indices,            \* backend: index name -> its mapping, settings and count
  calls,              \* one frame per caller: the operation and where it is
  infoRequests,       \* cluster-info requests issued so far
  opsStarted,         \* operations started so far
  stored,             \* SpecVec, backend: the documents of the index
  searchable,         \* SpecVec, backend: the documents a search sees
  vecCalls,           \* SpecVec: one frame per caller: its operation in flight
  last,               \* SpecVec: the operation that ended last
  vecOps              \* SpecVec: operations started so far

fnVars == <<fnOp, fnIn, fnOut>>
ixVars == <<config, maxCountAccuracy, isServerless, deploymentChecked, clusterInfo, indices, calls,
            infoRequests, opsStarted>>
vecVars == <<stored, searchable, vecCalls, last, vecOps>>

\* the parts of the state a specification does not use stay as they are here
FnIdle  == fnOp = "idle" /\ fnIn = << >> /\ fnOut = << >>
VecIdle ==
  /\ stored = {} /\ searchable = {} /\ vecCalls = << >>
  /\ last = [op |-> "none"] /\ vecOps = 0
IxIdle  ==
  /\ config = "undefined" /\ maxCountAccuracy = 0
  /\ isServerless = "undefined" /\ deploymentChecked = FALSE
  /\ clusterInfo = << >> /\ indices = << >> /\ calls = << >>
  /\ infoRequests = 0 /\ opsStarted = 0

----------------------------------------------------------------------------
(* Sequences *)

Injective(f) == \A i, j \in DOMAIN f : f[i] = f[j] => i = j

SeqsUpTo(S, n) == UNION {[1..k -> S] : k \in 0..n}

----------------------------------------------------------------------------
(* Strings *)

UpperLetters == <<"A","B","C","D","E","F","G","H","I","J","K","L","M",
                  "N","O","P","Q","R","S","T","U","V","W","X","Y","Z">>

LowerLetters == <<"a","b","c","d","e","f","g","h","i","j","k","l","m",
                  "n","o","p","q","r","s","t","u","v","w","x","y","z">>

\* String.prototype.toLowerCase on one character
LowerChar(c) ==
  IF \E i \in 1..Len(UpperLetters) : UpperLetters[i] = c
  THEN LowerLetters[CHOOSE i \in 1..Len(UpperLetters) : UpperLetters[i] = c]
  ELSE c

\* String.prototype.toLowerCase
toLowerCase(s) == [i \in 1..Len(s) |-> LowerChar(s[i])]

\* String.prototype.startsWith
startsWith(s, p) == Len(s) >= Len(p) /\ SubSeq(s, 1, Len(p)) = p

\* String.prototype.includes
includes(s, p) ==
  \E i \in 1..(Len(s) - Len(p) + 1) : SubSeq(s, i, i + Len(p) - 1) = p

\* the string literals of the source
S_cosine      == <<"c","o","s","i","n","e">>
S_euclidean   == <<"e","u","c","l","i","d","e","a","n">>
S_dotproduct  == <<"d","o","t","p","r","o","d","u","c","t">>
S_dot_product == <<"d","o","t","_","p","r","o","d","u","c","t">>
S_l2_norm     == <<"l","2","_","n","o","r","m">>
S_serverless  == <<"s","e","r","v","e","r","l","e","s","s">>
S_constructor == <<"c","o","n","s","t","r","u","c","t","o","r">>
S_metadataDot == <<"m","e","t","a","d","a","t","a",".">>
S_dotKeyword  == <<".","k","e","y","w","o","r","d">>
S_dot         == <<".">>

\* the names of the properties of Object.prototype, which every object
\* literal inherits
S_toString             == <<"t","o","S","t","r","i","n","g">>
S_valueOf              == <<"v","a","l","u","e","O","f">>
S_hasOwnProperty       == <<"h","a","s","O","w","n","P","r","o","p","e","r","t","y">>
S_proto                == <<"_","_","p","r","o","t","o","_","_">>

\* the names a plain object inherits: constructor, toString, toLocaleString,
\* valueOf, hasOwnProperty, isPrototypeOf, propertyIsEnumerable,
\* __defineGetter__, __defineSetter__, __lookupGetter__, __lookupSetter__
\* and __proto__
ObjectPrototypeNames ==
  {S_constructor, S_toString, S_valueOf, S_hasOwnProperty, S_proto,
   <<"t","o","L","o","c","a","l","e","S","t","r","i","n","g">>,
   <<"i","s","P","r","o","t","o","t","y","p","e","O","f">>,
   <<"p","r","o","p","e","r","t","y","I","s","E","n","u","m","e","r","a","b","l","e">>,
   <<"_","_","d","e","f","i","n","e","G","e","t","t","e","r","_","_">>,
   <<"_","_","d","e","f","i","n","e","S","e","t","t","e","r","_","_">>,
   <<"_","_","l","o","o","k","u","p","G","e","t","t","e","r","_","_">>,
   <<"_","_","l","o","o","k","u","p","S","e","t","t","e","r","_","_">>}

\* What a property lookup yields for a name inherited from Object.prototype:
\* the function of that name (the function Object for constructor), or
\* Object.prototype itself for __proto__. Each is an object, so it is truthy
\* and equals no string; it is written here as the bracketed text no table
\* holds.
Inherited(key) ==
  LET functionOpen == <<"[","F","u","n","c","t","i","o","n",":"," ">>
  IN  IF key = S_proto
      THEN <<"[","O","b","j","e","c","t",".","p","r","o","t","o","t","y","p","e","]">>
      ELSE IF key = S_constructor
      THEN functionOpen \o <<"O","b","j","e","c","t">> \o <<"]">>
      ELSE functionOpen \o key \o <<"]">>

\* The value of obj[key] for a plain object literal: the own property when
\* there is one, else the property inherited from Object.prototype, else
\* undefined (here the empty sequence, which like undefined is falsy).
Lookup(table, key) ==
  IF \E i \in 1..Len(table) : table[i][1] = key
  THEN table[CHOOSE i \in 1..Len(table) : table[i][1] = key][2]
  ELSE IF key \in ObjectPrototypeNames THEN Inherited(key)
  ELSE << >>

----------------------------------------------------------------------------
(* MetricMapper *)

metricMap ==
  << <<S_cosine,      S_cosine>>,
     <<S_euclidean,   S_l2_norm>>,
     <<S_dotproduct,  S_dot_product>>,
     <<S_dot_product, S_dot_product>> >>

similarityMap ==
  << <<S_cosine,      S_cosine>>,
     <<S_l2_norm,     S_euclidean>>,
     <<S_dot_product, S_dotproduct>> >>

mapMetricToSimilarity(metric) ==
  LET similarity == Lookup(metricMap, toLowerCase(metric))
  IN  IF similarity = << >> THEN S_cosine ELSE similarity

mapSimilarityToMetric_swapped(similarity) ==
  LET m == Lookup(similarityMap, similarity)
  IN  IF m = << >> THEN S_cosine
      ELSE IF m = S_euclidean THEN S_dotproduct
      ELSE IF m = S_dotproduct THEN S_euclidean
      ELSE m

mapSimilarityToMetric(similarity) ==
  LET m == Lookup(similarityMap, similarity)
  IN  IF m = << >> THEN S_cosine ELSE m

----------------------------------------------------------------------------
(* FilterTranslator *)

\* JavaScript values as they reach buildElasticFilter. An object is the
\* sequence of its own properties, <<name, value>>, in insertion order, an
\* array the sequence of its elements, themselves values.
Null      == [kind |-> "null"]
Undefined == [kind |-> "undefined"]
Scalar(n) == [kind |-> "scalar", num |-> n]
Arr(s)    == [kind |-> "array", elems |-> s]
Obj(ps)   == [kind |-> "object", props |-> ps]

\* `name in value`
In(name, value) == \E i \in 1..Len(value.props) : value.props[i][1] = name

\* value.name
Prop(value, name) ==
  IF In(name, value)
  THEN value.props[CHOOSE i \in 1..Len(value.props) : value.props[i][1] = name][2]
  ELSE Undefined

\* the clauses of the query DSL
Term(field, v)         == [clause |-> "term", field |-> field, value |-> v]
Terms(field, v)        == [clause |-> "terms", field |-> field, value |-> v]
MustNot(inner)         == [clause |-> "bool", must_not |-> inner]
Range(field, bound, v) == [clause |-> "range", field |-> field, bound |-> bound, value |-> v]
BoolMust(must)         == [bool |-> [must |-> must]]

\* `metadata.${key}.keyword` and `metadata.${key}`
KeywordField(key) == S_metadataDot \o key \o S_dotKeyword
RawField(key)     == S_metadataDot \o key

\* One iteration of the loop of buildElasticFilter: the clauses pushed for
\* the entry [key, value].
FilterClause_rawIn(key, value) ==
  IF value.kind \in {"null", "undefined"} THEN << >>
  ELSE IF value.kind = "object" THEN
    IF In("$eq", value) THEN << Term(KeywordField(key), Prop(value, "$eq")) >>
    ELSE IF In("$in", value) /\ Prop(value, "$in").kind = "array"
      THEN << Terms(RawField(key), Prop(value, "$in")) >>
    ELSE IF In("$ne", value)
      THEN << MustNot(Term(KeywordField(key), Prop(value, "$ne"))) >>
    ELSE IF In("$gt", value)  THEN << Range(RawField(key), "gt",  Prop(value, "$gt")) >>
    ELSE IF In("$gte", value) THEN << Range(RawField(key), "gte", Prop(value, "$gte")) >>
    ELSE IF In("$lt", value)  THEN << Range(RawField(key), "lt",  Prop(value, "$lt")) >>
    ELSE IF In("$lte", value) THEN << Range(RawField(key), "lte", Prop(value, "$lte")) >>
    ELSE << >>
  ELSE << Term(KeywordField(key), value) >>

FilterClause_everyKey(key, value) ==
  IF value.kind \in {"null", "undefined"} THEN << >>
  ELSE IF value.kind = "object" THEN
    (IF In("$eq", value) THEN << Term(KeywordField(key), Prop(value, "$eq")) >> ELSE << >>)
    \o (IF In("$in", value) /\ Prop(value, "$in").kind = "array"
        THEN << Terms(KeywordField(key), Prop(value, "$in")) >> ELSE << >>)
    \o (IF In("$ne", value)
        THEN << MustNot(Term(KeywordField(key), Prop(value, "$ne"))) >> ELSE << >>)
    \o (IF In("$gt", value)  THEN << Range(RawField(key), "gt",  Prop(value, "$gt")) >>  ELSE << >>)
    \o (IF In("$gte", value) THEN << Range(RawField(key), "gte", Prop(value, "$gte")) >> ELSE << >>)
    \o (IF In("$lt", value)  THEN << Range(RawField(key), "lt",  Prop(value, "$lt")) >>  ELSE << >>)
    \o (IF In("$lte", value) THEN << Range(RawField(key), "lte", Prop(value, "$lte")) >> ELSE << >>)
  ELSE << Term(KeywordField(key), value) >>

FilterClause(key, value) ==
  IF value.kind \in {"null", "undefined"} THEN << >>
  ELSE IF value.kind = "object" THEN
    IF In("$eq", value) THEN << Term(KeywordField(key), Prop(value, "$eq")) >>
    ELSE IF In("$in", value) /\ Prop(value, "$in").kind = "array"
      THEN << Terms(KeywordField(key), Prop(value, "$in")) >>
    ELSE IF In("$ne", value)
      THEN << MustNot(Term(KeywordField(key), Prop(value, "$ne"))) >>
    ELSE IF In("$gt", value)  THEN << Range(RawField(key), "gt",  Prop(value, "$gt")) >>
    ELSE IF In("$gte", value) THEN << Range(RawField(key), "gte", Prop(value, "$gte")) >>
    ELSE IF In("$lt", value)  THEN << Range(RawField(key), "lt",  Prop(value, "$lt")) >>
    ELSE IF In("$lte", value) THEN << Range(RawField(key), "lte", Prop(value, "$lte")) >>
    ELSE << >>
  ELSE << Term(KeywordField(key), value) >>

\* the decimal digits, in order
DecimalDigits == <<"0","1","2","3","4","5","6","7","8","9">>

\* Number.prototype.toString of a non-negative integer, as a template
\* literal or a property name holds it
RECURSIVE NumberToString(_)
NumberToString(n) ==
  IF n < 10 THEN <<DecimalDigits[n + 1]>>
  ELSE NumberToString(n \div 10) \o <<DecimalDigits[(n % 10) + 1]>>

\* a before b, for two texts of digits of the same length
DigitsLess(a, b) ==
  LET DigitOf(c) == CHOOSE d \in 0..9 : DecimalDigits[d + 1] = c
  IN  \E i \in 1..Len(a) :
        /\ DigitOf(a[i]) < DigitOf(b[i])
        /\ \A j \in 1..(i - 1) : a[j] = b[j]

\* The property name is an array index: the decimal text, without a
\* leading zero, of an integer from 0 to 2^32 - 2. Object.entries lists
\* such names first.
IsArrayIndex(name) ==
  /\ Len(name) >= 1 /\ Len(name) <= 10
  /\ \A i \in 1..Len(name) : \E d \in 1..10 : DecimalDigits[d] = name[i]
  /\ Len(name) > 1 => name[1] # "0"
  /\ Len(name) = 10 =>
       LET maxArrayIndex == <<"4","2","9","4","9","6","7","2","9","4">>
       IN  name = maxArrayIndex \/ DigitsLess(name, maxArrayIndex)

\* entries in ascending (numeric) order of their array-index names
RECURSIVE SortByIndex(_)
SortByIndex(entries) ==
  IF entries = << >> THEN << >>
  ELSE LET IndexLess(a, b) == Len(a) < Len(b) \/ (Len(a) = Len(b) /\ DigitsLess(a, b))
           m == CHOOSE i \in 1..Len(entries) :
                  \A j \in 1..Len(entries) : ~IndexLess(entries[j][1], entries[i][1])
       IN  <<entries[m]>> \o
           SortByIndex([k \in 1..(Len(entries) - 1) |->
                          IF k < m THEN entries[k] ELSE entries[k + 1]])

\* line 597, Object.entries(filter): the own properties of an object, those
\* named by an array index first, in ascending order, then the others in
\* insertion order; of an array, its elements under their indices
ObjectEntries(value) ==
  IF value.kind = "array"
  THEN [i \in 1..Len(value.elems) |-> <<NumberToString(i - 1), value.elems[i]>>]
  ELSE SortByIndex(SelectSeq(value.props, LAMBDA e : IsArrayIndex(e[1])))
       \o SelectSeq(value.props, LAMBDA e : ~IsArrayIndex(e[1]))

\* line 591: `!filter || typeof filter !== 'object'`; typeof gives
\* 'object' for null, for an array and for an object, and null is falsy
IsObjectFilter(filter) == filter.kind \in {"object", "array"}

RECURSIVE FilterMust(_)
FilterMust(entries) ==
  IF entries = << >> THEN << >>
  ELSE FilterClause(entries[1][1], entries[1][2]) \o FilterMust(Tail(entries))

buildElasticFilter_alwaysBool(filter) ==
  IF ~IsObjectFilter(filter) THEN Undefined
  ELSE BoolMust(FilterMust(ObjectEntries(filter)))

buildElasticFilter(filter) ==
  IF ~IsObjectFilter(filter) THEN Undefined
  ELSE LET must == FilterMust(ObjectEntries(filter))
       IN  IF Len(must) > 0 THEN BoolMust(must) ELSE Undefined

----------------------------------------------------------------------------
(* listIndexes *)

\* The response of client.cat.indices is Failed or Rows(names), one row
\* per index of the catalog, in the order the backend lists them.
Failed      == [ok |-> FALSE]
Rows(names) == [ok |-> TRUE, rows |-> names]
Returned(v) == [status |-> "returned", value |-> v]
Raised      == [status |-> "raised"]

listIndexes_includesDot(response) ==
  IF ~response.ok THEN Raised
  ELSE Returned(SelectSeq(response.rows, LAMBDA name : ~includes(name, S_dot)))

listIndexes(response) ==
  IF ~response.ok THEN Raised
  ELSE Returned(SelectSeq(response.rows, LAMBDA name : ~startsWith(name, S_dot)))

----------------------------------------------------------------------------
(* DeploymentDetector *)

\* The answer to client.info(): InfoFailed, or the fields detectServerless
\* reads. A field the response lacks has its has_ flag FALSE.
InfoFailed == [ok |-> FALSE]
Info(hasFlavor, flavor, hasTagline, tagline) ==
  [ok |-> TRUE, has_build_flavor |-> hasFlavor, build_flavor |-> flavor,
   has_tagline |-> hasTagline, tagline |-> tagline]

\* lines 101-106: the flavor read from a cluster-info response
IsServerlessInfo_caseSensitive(info) ==
  LET isBuildFlavorServerless == info.has_build_flavor /\ info.build_flavor = "serverless"
      isTaglineServerless ==
        IF info.has_tagline THEN includes(info.tagline, S_serverless)
        ELSE FALSE
  IN  isBuildFlavorServerless \/ isTaglineServerless

IsServerlessInfo(info) ==
  LET isBuildFlavorServerless == info.has_build_flavor /\ info.build_flavor = "serverless"
      isTaglineServerless ==
        IF info.has_tagline THEN includes(toLowerCase(info.tagline), S_serverless)
        ELSE FALSE
  IN  isBuildFlavorServerless \/ isTaglineServerless

Bool(b) == IF b THEN "true" ELSE "false"

\* lines 84-95: what detectServerless does before any await:
\* "cached" (line 85), "explicit" (line 94) or "info" (line 98)
DetectPath_always(checked, flavor) == "info"

DetectPath_ignoreExplicit(checked, flavor) ==
  IF checked THEN "cached" ELSE "info"

DetectPath(checked, flavor) ==
  IF checked THEN "cached"
  ELSE IF flavor # "undefined" THEN "explicit"
  ELSE "info"

\* lines 98-128: the value cached once the cluster-info request ended
DetectResult_failServerless(response) ==
  IF response.ok THEN Bool(IsServerlessInfo(response)) ELSE "true"

DetectResult(response) ==
  IF response.ok THEN Bool(IsServerlessInfo(response)) ELSE "false"

----------------------------------------------------------------------------
(* IndexLifecycle: createIndex, describeIndex and deleteIndex, one action   *)
(* per stretch of code between two awaits, run by NumCallers concurrent     *)
(* callers of one adapter instance. The await of detectServerless ends a    *)
(* stretch too: the caller goes on only once detectServerless has returned, *)
(* and the steps of other callers may come in between. A request on the    *)
(* catalog is two steps: the backend takes it, reads or changes the        *)
(* catalog and answers; later the answer reaches the caller that awaits    *)
(* it. The cluster-info request is sent in one step and answered in the   *)
(* step that delivers its answer, which depends on nothing that changes.   *)

NumCallers == 2   \* concurrent callers
MaxOps     == 2   \* operations started in one behaviour

Callers    == 1..NumCallers
IndexNames == {"memory"}

\* backend: an index of the catalog, or Absent
Absent == [exists |-> FALSE]
Index(type, dims, similarity, settings, count) ==
  [exists |-> TRUE, vector_type |-> type, dims |-> dims,
   similarity |-> similarity, settings |-> settings, count |-> count]

\* lines 188-191, and the request without the settings key
ExplicitSettings == [number_of_shards |-> 1, number_of_replicas |-> 0]
NoSettings       == [absent |-> TRUE]

NoRequest == [sent |-> FALSE]
NoResult  == [none |-> TRUE]

\* lines 164-192: the index-create request
IndexConfig_alwaysSettings(indexName, dimension, metric, flavor) ==
  [sent |-> TRUE,
   index |-> indexName,
   vector |-> [type |-> "dense_vector", dims |-> dimension, index |-> TRUE,
               similarity |-> mapMetricToSimilarity(metric)],
   metadata |-> [type |-> "object", enabled |-> TRUE, dynamic |-> TRUE],
   settings |-> ExplicitSettings]

IndexConfig(indexName, dimension, metric, flavor) ==
  [sent |-> TRUE,
   index |-> indexName,
   vector |-> [type |-> "dense_vector", dims |-> dimension, index |-> TRUE,
               similarity |-> mapMetricToSimilarity(metric)],
   metadata |-> [type |-> "object", enabled |-> TRUE, dynamic |-> TRUE],
   settings |-> IF flavor # "true" THEN ExplicitSettings ELSE NoSettings]

\* backend: the index an index-create request creates
CreatedIndex(request) ==
  Index(request.vector.type, request.vector.dims, request.vector.similarity,
        request.settings, 0)

\* the request a caller awaits has no answer yet, or the backend's answer:
\* "ok" with what it read of the index, "failed", or "already_exists"
NoResponse == [taken |-> FALSE]
Response(status, index) == [taken |-> TRUE, status |-> status, index |-> index]

IdleFrame ==
  [op |-> "none", pc |-> "idle", indexName |-> "", dimension |-> 0,
   metric |-> << >>, isServerless |-> "undefined", detect |-> "none",
   exists |-> "unknown", createRequest |-> NoRequest, countCalls |-> << >>,
   countRequest |-> NoRequest,
   failed |-> << >>, outcome |-> "none", result |-> NoResult, error |-> "none",
   response |-> NoResponse]

Return(f, result) == [f EXCEPT !.pc = "done", !.outcome = "returned", !.result = result]
\* the catch blocks (lines 200-204, 444-448, 463-467): the operation throws
\* an Error whose message wraps the one caught, here its origin: "backend"
\* (a request that did not get through), "already_exists" (the backend
\* refused to create an index that exists), "validation" (lines 153-157),
\* "not_vector_index" (lines 368-372) or "no_dims" (lines 376-378)
Raise(f, error)   == [f EXCEPT !.pc = "done", !.outcome = "raised", !.error = error]

\* the awaited request rejected: the frame remembers which one
Fail(f, request) == [f EXCEPT !.failed = Append(@, request)]

\* The base class's validateExistingIndex(indexName, dimension, metric):
\* the existing schema's dimension and metric against the requested ones.
validateExistingIndex_ignoreMetric(index, dimension, metric) ==
  /\ index.exists
  /\ index.vector_type = "dense_vector"
  /\ index.dims = dimension

validateExistingIndex(index, dimension, metric) ==
  /\ index.exists
  /\ index.vector_type = "dense_vector"
  /\ index.dims = dimension
  /\ mapSimilarityToMetric(IF index.similarity = << >> THEN S_cosine
                           ELSE index.similarity) = metric

\* lines 147-159: what createIndex does with an index that exists
OnExisting_fallThrough(valid) == IF valid THEN "return" ELSE "create"

OnExisting(valid) == IF valid THEN "return" ELSE "throw"

\* lines 365-379: the checks of describeIndex on the mapping it read
MappingError_dimsOptional(index) ==
  IF index.vector_type = "none" \/ index.vector_type # "dense_vector"
  THEN "not_vector_index"
  ELSE "none"

MappingError(index) ==
  IF index.vector_type = "none" \/ index.vector_type # "dense_vector"
  THEN "not_vector_index"
  ELSE IF index.dims = 0 THEN "no_dims"
  ELSE "none"

\* lines 388-437: the count call describeIndex makes first, and the one it
\* makes when the first failed
PrimaryCountCall(flavor)  == IF flavor = "true" THEN "count" ELSE "stats"
FallbackCountCall(flavor) == IF flavor = "true" THEN "search" ELSE "count"

\* lines 394-405 and 427-436: what describeIndex does when its n-th count
\* call failed: the catch of the first call makes the fallback call, whose
\* failure is caught by nothing but the outer catch (line 444), which throws;
\* "return" would be the count left at 0
OnCountFailure_swallow(n) == IF n = 1 THEN "fallback" ELSE "return"

OnCountFailure_retry(n) == IF n <= 2 THEN "fallback" ELSE "throw"

OnCountFailure(n) == IF n = 1 THEN "fallback" ELSE "throw"

\* line 68: config.maxCountAccuracy ?? 10000, the option being << >> when
\* it is not given and <<n>> when it is n
ConfiguredCeiling(given) == IF given = << >> THEN 10000 ELSE given[1]

\* lines 391, 401-405, 423 and 434: the request of a count call; the
\* search asks for no hits and for a total tracked up to the ceiling
CountRequest(call, indexName, ceiling) ==
  IF call = "search"
  THEN [sent |-> TRUE, call |-> call, index |-> indexName,
        size |-> 0, track_total_hits |-> ceiling]
  ELSE [sent |-> TRUE, call |-> call, index |-> indexName]

\* backend: hits.total of a search over `count` documents that tracks the
\* total up to track_total_hits
TrackedTotal(count, track_total_hits) ==
  IF count > track_total_hits
  THEN [value |-> track_total_hits, relation |-> "gte"]
  ELSE [value |-> count, relation |-> "eq"]

\* lines 392, 407-409, 425, 435: the count read from a response, `|| 0`
CountFrom(call, response) ==
  LET n == IF call = "search" THEN response.total.value ELSE response.count
  IN  IF n = 0 THEN 0 ELSE n

\* detectServerless returned the flavor on the path it took; the caller
\* that awaits it has not gone on yet
Detected(f, flavor, path) ==
  [f EXCEPT !.isServerless = flavor, !.detect = path, !.pc = "detect_return"]

\* lines 82-98: detectServerless up to its first await or to its return
\* without one (lines 85 and 94: this.isServerless ?? false), called by
\* caller c whose frame is f
CallDetect(c, f) ==
  LET path == DetectPath(deploymentChecked, isServerless)
  IN  IF path = "info"
      THEN /\ calls' = [calls EXCEPT ![c] = [f EXCEPT !.pc = "detect_info", !.detect = "info"]]
           /\ infoRequests' = infoRequests + 1
           /\ UNCHANGED <<isServerless, deploymentChecked>>
      ELSE /\ calls' = [calls EXCEPT ![c] =
                          Detected(f, IF isServerless = "undefined" THEN "false"
                                      ELSE isServerless, path)]
           /\ deploymentChecked' = TRUE
           /\ UNCHANGED <<isServerless, infoRequests>>

CanStart(c) == calls[c].pc \in {"idle", "done"} /\ opsStarted < MaxOps

\* the <<dimension, metric>> createIndex is called with; the indices of
\* InitIndexes differ from it in dimension, in metric or in both
CreateInputs == {<<4, S_cosine>>}

\* createIndex, lines 141-145
StartCreateIndex(c) ==
  /\ CanStart(c)
  /\ \E indexName \in IndexNames, input \in CreateInputs :
       calls' = [calls EXCEPT ![c] =
                   [IdleFrame EXCEPT !.op = "createIndex", !.pc = "ci_exists",
                                     !.indexName = indexName,
                                     !.dimension = input[1], !.metric = input[2]]]
  /\ opsStarted' = opsStarted + 1
  /\ UNCHANGED <<config, maxCountAccuracy, isServerless, deploymentChecked, clusterInfo, indices, infoRequests, fnVars, vecVars>>

\* backend: the request caller c awaits is taken and answered. An
\* index-create request creates the index unless it exists. An index-delete
\* request deletes the index, and fails when there is none. The other
\* requests read the index: indices.exists says whether it is there; the
\* get-mapping, statistics, count and search requests fail when it is not;
\* the search reports the total it tracked.
\* Any request may fail to get through.
ClientIndices(c) ==
  LET f == calls[c]
      index == indices[f.indexName]
      Answer(response) == calls' = [calls EXCEPT ![c] = [f EXCEPT !.response = response]]
  IN
  /\ f.pc \in {"ci_exists", "ci_validate", "ci_create", "di_mapping",
               "di_primary", "di_fallback", "xi_delete"}
  /\ f.response = NoResponse
  /\ \E ok \in BOOLEAN :
       IF ~ok THEN
         /\ Answer(Response("failed", Absent))
         /\ UNCHANGED indices
       ELSE IF f.pc = "ci_create" THEN
         IF index.exists
         THEN /\ Answer(Response("already_exists", Absent))
              /\ UNCHANGED indices
         ELSE /\ Answer(Response("ok", Absent))
              /\ indices' = [indices EXCEPT ![f.indexName] = CreatedIndex(f.createRequest)]
       ELSE IF f.pc = "xi_delete" THEN
         IF index.exists
         THEN /\ Answer(Response("ok", Absent))
              /\ indices' = [indices EXCEPT ![f.indexName] = Absent]
         ELSE /\ Answer(Response("failed", Absent))
              /\ UNCHANGED indices
       ELSE
         /\ Answer(CASE f.pc = "ci_exists" ->
                          Response("ok", [exists |-> index.exists])
                     [] f.pc = "ci_validate" ->
                          Response("ok", index)
                     [] f.pc = "di_mapping" /\ index.exists ->
                          Response("ok", index)
                     [] f.pc \in {"di_primary", "di_fallback"} /\ index.exists ->
                          Response("ok",
                            IF f.countRequest.call = "search"
                            THEN [exists |-> TRUE,
                                  total |-> TrackedTotal(index.count,
                                                         f.countRequest.track_total_hits)]
                            ELSE [exists |-> TRUE, count |-> index.count])
                     [] OTHER ->
                          Response("failed", Absent))
         /\ UNCHANGED indices
  /\ UNCHANGED <<config, maxCountAccuracy, isServerless, deploymentChecked, clusterInfo, infoRequests,
                 opsStarted, fnVars, vecVars>>

\* the answer to the request of frame f has come: f as it goes on
Got(f) == [f EXCEPT !.response = NoResponse]

\* createIndex, lines 145-161: the answer to indices.exists
CreateIndexExists(c) ==
  LET f == calls[c] IN
  /\ f.pc = "ci_exists" /\ f.response # NoResponse
  /\ IF f.response.status # "ok" THEN
       /\ calls' = [calls EXCEPT ![c] = Raise(Fail(Got(f), "exists"), "backend")]
       /\ UNCHANGED <<isServerless, deploymentChecked, infoRequests>>
     ELSE IF f.response.index.exists THEN
       /\ calls' = [calls EXCEPT ![c] = [Got(f) EXCEPT !.exists = "true", !.pc = "ci_validate"]]
       /\ UNCHANGED <<isServerless, deploymentChecked, infoRequests>>
     ELSE CallDetect(c, [Got(f) EXCEPT !.exists = "false"])
  /\ UNCHANGED <<config, maxCountAccuracy, clusterInfo, indices, opsStarted, fnVars, vecVars>>

\* createIndex, lines 147-159: validateExistingIndex has read the schema
CreateIndexValidate(c) ==
  LET f == calls[c] IN
  /\ f.pc = "ci_validate" /\ f.response # NoResponse
  /\ LET ok == f.response.status = "ok"
         valid == ok /\ validateExistingIndex(f.response.index, f.dimension, f.metric)
         branch == OnExisting(valid)
         g == IF ok THEN Got(f) ELSE Fail(Got(f), "getMapping")
     IN  IF branch = "return" THEN
           /\ calls' = [calls EXCEPT ![c] = Return(Got(f), NoResult)]
           /\ UNCHANGED <<isServerless, deploymentChecked, infoRequests>>
         ELSE IF branch = "throw" THEN
           /\ calls' = [calls EXCEPT ![c] = Raise(g, "validation")]
           /\ UNCHANGED <<isServerless, deploymentChecked, infoRequests>>
         ELSE CallDetect(c, g)
  /\ UNCHANGED <<config, maxCountAccuracy, clusterInfo, indices, opsStarted, fnVars, vecVars>>

\* detectServerless, lines 98-128: the cluster-info request ended and
\* detectServerless returns
DetectInfoResponse(c) ==
  LET f == calls[c] IN
  /\ f.pc = "detect_info"
  /\ \E response \in {clusterInfo, InfoFailed} :
       /\ isServerless' = DetectResult(response)
       /\ deploymentChecked' = TRUE
       /\ calls' = [calls EXCEPT ![c] =
                      Detected(IF response.ok THEN f ELSE Fail(f, "info"),
                               DetectResult(response), "info")]
  /\ UNCHANGED <<config, maxCountAccuracy, clusterInfo, indices, infoRequests, opsStarted, fnVars, vecVars>>

\* createIndex, lines 161-194, and describeIndex, lines 360-363: the await
\* of detectServerless is over and the operation sends its next request
DetectReturned(c) ==
  LET f == calls[c] IN
  /\ f.pc = "detect_return"
  /\ calls' = [calls EXCEPT ![c] =
                 IF f.op = "createIndex"
                 THEN [f EXCEPT !.pc = "ci_create",
                                !.createRequest = IndexConfig(f.indexName, f.dimension,
                                                              f.metric, f.isServerless)]
                 ELSE [f EXCEPT !.pc = "di_mapping"]]
  /\ UNCHANGED <<config, maxCountAccuracy, isServerless, deploymentChecked, clusterInfo, indices,
                 infoRequests, opsStarted, fnVars, vecVars>>

\* createIndex, lines 194-204: the answer to indices.create
CreateIndexCreated(c) ==
  LET f == calls[c] IN
  /\ f.pc = "ci_create" /\ f.response # NoResponse
  /\ calls' = [calls EXCEPT ![c] =
                 IF f.response.status = "ok" THEN Return(Got(f), NoResult)
                 ELSE Raise(Fail(Got(f), "create"),
                            IF f.response.status = "already_exists"
                            THEN "already_exists" ELSE "backend")]
  /\ UNCHANGED <<config, maxCountAccuracy, isServerless, deploymentChecked, clusterInfo, indices,
                 infoRequests, opsStarted, fnVars, vecVars>>

\* describeIndex, lines 356-363
StartDescribeIndex(c) ==
  /\ CanStart(c)
  /\ \E indexName \in IndexNames :
       CallDetect(c, [IdleFrame EXCEPT !.op = "describeIndex", !.indexName = indexName])
  /\ opsStarted' = opsStarted + 1
  /\ UNCHANGED <<config, maxCountAccuracy, clusterInfo, indices, fnVars, vecVars>>

\* describeIndex, lines 363-391 and 423: the answer to indices.getMapping
DescribeMapping(c) ==
  LET f == calls[c]
      index == f.response.index
  IN
  /\ f.pc = "di_mapping" /\ f.response # NoResponse
  /\ IF f.response.status # "ok" THEN
       calls' = [calls EXCEPT ![c] = Raise(Fail(Got(f), "getMapping"), "backend")]
     ELSE IF MappingError(index) = "none" THEN
       calls' = [calls EXCEPT ![c] =
                   [Got(f) EXCEPT !.pc = "di_primary",
                                  !.result = [dimension |-> index.dims,
                                              metric |-> mapSimilarityToMetric(
                                                          IF index.similarity = << >>
                                                          THEN S_cosine
                                                          ELSE index.similarity),
                                              count |-> 0],
                                  !.countCalls = <<PrimaryCountCall(f.isServerless)>>,
                                  !.countRequest =
                                     CountRequest(PrimaryCountCall(f.isServerless),
                                                  f.indexName, maxCountAccuracy)]]
     ELSE
       calls' = [calls EXCEPT ![c] = Raise(Got(f), MappingError(index))]
  /\ UNCHANGED <<config, maxCountAccuracy, isServerless, deploymentChecked, clusterInfo, indices, infoRequests,
                 opsStarted, fnVars, vecVars>>

\* describeIndex, lines 391-448: the answer to the n-th count call
DescribeCounted(c, pc, n) ==
  LET f == calls[c] IN
  /\ f.pc = pc /\ f.response # NoResponse
  /\ IF f.response.status = "ok" THEN
       calls' = [calls EXCEPT ![c] =
                   Return(Got(f), [f.result EXCEPT
                                     !.count = CountFrom(f.countCalls[n], f.response.index)])]
     ELSE LET g == Fail(Got(f), f.countCalls[n]) IN
       CASE OnCountFailure(n) = "fallback" ->
              calls' = [calls EXCEPT ![c] =
                          [g EXCEPT !.pc = "di_fallback",
                                    !.countCalls = Append(@, FallbackCountCall(f.isServerless)),
                                    !.countRequest =
                                       CountRequest(FallbackCountCall(f.isServerless),
                                                    f.indexName, maxCountAccuracy)]]
         [] OnCountFailure(n) = "throw" ->
              calls' = [calls EXCEPT ![c] = Raise(g, "backend")]
         [] OTHER ->
              calls' = [calls EXCEPT ![c] = Return(g, f.result)]
  /\ UNCHANGED <<config, maxCountAccuracy, isServerless, deploymentChecked, clusterInfo, indices, infoRequests,
                 opsStarted, fnVars, vecVars>>

\* describeIndex, lines 391-405 and 423-434: the answer to the first count
\* call
DescribePrimary(c) == DescribeCounted(c, "di_primary", 1)

\* describeIndex, lines 401-448: the answer to the fallback count call
DescribeFallback(c) == DescribeCounted(c, "di_fallback", Len(calls[c].countCalls))

\* deleteIndex, lines 457-461
StartDeleteIndex(c) ==
  /\ CanStart(c)
  /\ \E indexName \in IndexNames :
       calls' = [calls EXCEPT ![c] =
                   [IdleFrame EXCEPT !.op = "deleteIndex", !.pc = "xi_delete",
                                     !.indexName = indexName]]
  /\ opsStarted' = opsStarted + 1
  /\ UNCHANGED <<config, maxCountAccuracy, isServerless, deploymentChecked, clusterInfo, indices, infoRequests, fnVars, vecVars>>

\* deleteIndex, lines 461-467: the answer to indices.delete
DeleteIndexDeleted(c) ==
  LET f == calls[c] IN
  /\ f.pc = "xi_delete" /\ f.response # NoResponse
  /\ calls' = [calls EXCEPT ![c] =
                 IF f.response.status = "ok" THEN Return(Got(f), NoResult)
                 ELSE Raise(Fail(Got(f), "delete"), "backend")]
  /\ UNCHANGED <<config, maxCountAccuracy, isServerless, deploymentChecked, clusterInfo, indices,
                 infoRequests, opsStarted, fnVars, vecVars>>

\* the cluster-info answers of the clusters considered: a serverless one
\* and a standard one
S_tagSearch     == <<"S","e","a","r","c","h">>

\* an adapter that is told its flavor never reads the cluster's answer: it
\* is put on the cluster of the other flavor
ClusterInfos(flavor) ==
  CASE flavor = "true"  -> {Info(TRUE, "default", TRUE, S_tagSearch)}
    [] flavor = "false" -> {Info(TRUE, "serverless", TRUE, S_tagSearch)}
    [] OTHER            -> {Info(TRUE, "serverless", TRUE, S_tagSearch),
                            Info(TRUE, "default", TRUE, S_tagSearch)}

\* the indices the catalog may hold before the adapter is used
InitIndexes ==
  {Absent,
   Index("dense_vector", 4, S_l2_norm, NoSettings, 20000),
   Index("dense_vector", 3, << >>, ExplicitSettings, 2),
   Index("dense_vector", 0, S_cosine, ExplicitSettings, 2),
   Index("text", 0, << >>, ExplicitSettings, 2),
   Index("none", 0, << >>, ExplicitSettings, 0)}

\* the configurations given to the constructor: isServerless given or not,
\* and maxCountAccuracy given or not (only an adapter that takes its
\* deployment for serverless ever reads it)
Configs ==
  {[isServerless |-> "undefined", maxCountAccuracy |-> << >>],
   [isServerless |-> "true",      maxCountAccuracy |-> <<15000>>],
   [isServerless |-> "false",     maxCountAccuracy |-> << >>]}

\* lines 63-69: the constructor
Init ==
  /\ \E given \in Configs :
       /\ config = given.isServerless
       /\ maxCountAccuracy = ConfiguredCeiling(given.maxCountAccuracy)
  /\ isServerless = config
  /\ deploymentChecked = FALSE
  /\ clusterInfo \in ClusterInfos(config)
  /\ indices \in [IndexNames -> InitIndexes]
  /\ calls = [c \in Callers |-> IdleFrame]
  /\ infoRequests = 0
  /\ opsStarted = 0
  /\ FnIdle /\ VecIdle

Next ==
  \E c \in DOMAIN calls :
    \/ StartCreateIndex(c)
    \/ ClientIndices(c)
    \/ CreateIndexExists(c)
    \/ CreateIndexValidate(c)
    \/ DetectInfoResponse(c)
    \/ DetectReturned(c)
    \/ CreateIndexCreated(c)
    \/ StartDescribeIndex(c)
    \/ DescribeMapping(c)
    \/ DescribePrimary(c)
    \/ DescribeFallback(c)
    \/ StartDeleteIndex(c)
    \/ DeleteIndexDeleted(c)

----------------------------------------------------------------------------
(* VectorOps: upsert, query, updateVector and deleteVector on one index.    *)
(* An operation is three steps: its code up to the await of the client's   *)
(* request, the backend taking the request and answering it, and its code  *)
(* after the await. The steps of different callers interleave freely.      *)

MaxBatch  == 2   \* vectors of one upsert
MaxVecOps == 2   \* operations started in one behaviour

\* line 218: the text of a generated id; random is
\* Math.random().toString(36).substr(2, 9)
GeneratedId_noPosition(now, i, random) ==
  <<"v","e","c","_">> \o NumberToString(now) \o <<"_">> \o random

GeneratedId(now, i, random) ==
  <<"v","e","c","_">> \o NumberToString(now) \o <<"_">>
    \o NumberToString(i) \o <<"_">> \o random

\* ids are strings, those the caller supplies like those generated; the
\* second one a caller supplies here has the form of a generated id
S_a              == <<"a">>
S_vec_1000_0_k3x == <<"v","e","c","_","1","0","0","0","_","0","_","k","3","x">>

CallerIds    == {S_a, S_vec_1000_0_k3x}
Clock        == {1000, 1001}

\* metadata objects, as sets of <<key, value>>
NoMetadata == {}
MetaK      == {<<"k", 1>>}
MetaJ      == {<<"j", 2>>}

Doc(id, vector, metadata) == [id |-> id, vector |-> vector, metadata |-> metadata]

HasDoc(docs, id) == \E d \in docs : d.id = id
DocOf(docs, id)  == CHOOSE d \in docs : d.id = id

\* line 218: ids || vectors.map(...), Date.now() and Math.random() being
\* read once for each vector
VectorIds(params, nows, randoms) ==
  IF params.has_ids THEN params.ids
  ELSE [i \in 1..Len(params.vectors) |-> GeneratedId(nows[i], i - 1, randoms[i])]

\* lines 220-226: the operations of the bulk request, one per vector (the
\* action line and the document line of the source taken together)
BulkOperations(params, vectorIds) ==
  [i \in 1..Len(params.vectors) |->
     [_id |-> vectorIds[i],
      vector |-> params.vectors[i],
      metadata |-> IF i <= Len(params.metadata) THEN params.metadata[i]
                   ELSE NoMetadata]]

\* lines 228-231
BulkRequest_noRefresh(operations) == [refresh |-> FALSE, operations |-> operations]

BulkRequest(operations) == [refresh |-> TRUE, operations |-> operations]

\* backend: the index after the operations not in `failed` were applied in
\* order; indexing a document replaces the one of the same id
RECURSIVE BulkApply(_, _, _, _)
BulkApply(docs, operations, failed, i) ==
  IF i > Len(operations) THEN docs
  ELSE LET o == operations[i]
           next == IF i \in failed THEN docs
                   ELSE {d \in docs : d.id # o._id} \cup {Doc(o._id, o.vector, o.metadata)}
       IN  BulkApply(next, operations, failed, i + 1)

\* backend: the bulk response, one item per operation
BulkResponse(operations, failed) ==
  [ok |-> TRUE,
   errors |-> failed # {},
   items |-> [i \in 1..Len(operations) |->
                [_id |-> operations[i]._id, error |-> i \in failed]]]

\* backend: what a search sees after a write
Visible(refresh, before, after) == IF refresh THEN after ELSE before

\* lines 233-263: the value upsert returns, or Raised (line 256)
UpsertResult(vectorIds, response) ==
  IF response.errors
  THEN LET erroredIds == {response.items[i]._id :
                            i \in {k \in DOMAIN response.items : response.items[k].error}}
           successfulIds == SelectSeq(vectorIds, LAMBDA id : id \notin erroredIds)
       IN  IF Len(successfulIds) = 0 THEN Raised ELSE Returned(successfulIds)
  ELSE Returned(vectorIds)

\* the arguments of upsert: n vectors (the i-th one named after i),
\* metadata for the first of them only, and ids given (one per vector,
\* repeated or not) or left out
BatchVectors(n) == [i \in 1..n |-> <<"u", i>>]

UpsertParams ==
  UNION {
    {[vectors |-> BatchVectors(n), metadata |-> ms, has_ids |-> TRUE, ids |-> ids] :
       ms \in {<<MetaK>>}, ids \in [1..n -> CallerIds]}
    \cup
    {[vectors |-> BatchVectors(n), metadata |-> ms, has_ids |-> FALSE, ids |-> << >>] :
       ms \in {<<MetaK>>}}
    : n \in 1..MaxBatch}

\* the values Date.now() may give to the ids of one call: the clock stands
\* still during the call, or ticks once after the first vector; with ids
\* given it is not read
NowsFor(params) ==
  IF params.has_ids THEN {<< >>}
  ELSE {nows \in [1..Len(params.vectors) -> Clock] :
          /\ nows[1] = 1000
          /\ \A i, j \in 2..Len(params.vectors) : nows[i] = nows[j]}

\* the values Math.random() may give to the ids of one call: the same one
\* each time, or two in turn; with ids given it is not read
RandomsFor(params) ==
  IF params.has_ids THEN {<< >>}
  ELSE {[i \in 1..Len(params.vectors) |-> <<"k","3","x">>],
        [i \in 1..Len(params.vectors) |->
           IF i % 2 = 1 THEN <<"k","3","x">> ELSE <<"p","9","q">>]}

\* a caller that is in no operation
IdleVecFrame == [op |-> "none", pc |-> "idle"]

\* the request of caller c was sent and is awaited
Sent(c, frame) == vecCalls' = [vecCalls EXCEPT ![c] = frame @@ [pc |-> "sent"]]

\* the backend answered the request of caller c, or the request failed
Answered(c, response) ==
  vecCalls' = [vecCalls EXCEPT ![c] =
                 [vecCalls[c] EXCEPT !.pc = "answered"] @@ [response |-> response]]

\* the operation of caller c ended: `last` keeps what it did
Ended(c, record) ==
  /\ last' = record
  /\ vecCalls' = [vecCalls EXCEPT ![c] = IdleVecFrame]

CanStartVec(c) == vecCalls[c].pc = "idle" /\ vecOps < MaxVecOps

\* upsert, lines 213-231: up to the await of client.bulk
StartUpsert(c, params) ==
  /\ CanStartVec(c)
  /\ \E nows \in NowsFor(params), randoms \in RandomsFor(params) :
       LET vectorIds == VectorIds(params, nows, randoms)
           request == BulkRequest(BulkOperations(params, vectorIds))
       IN  Sent(c, [op |-> "upsert", params |-> params, vectorIds |-> vectorIds,
                    request |-> request])
  /\ vecOps' = vecOps + 1
  /\ UNCHANGED <<stored, searchable, last, fnVars, ixVars>>

\* backend: the bulk request of caller c is taken and answered, with the
\* operations in `failed` reported as failed, or it fails as a whole
ClientBulk(c) ==
  LET f == vecCalls[c] IN
  /\ f.op = "upsert" /\ f.pc = "sent"
  /\ \E ok \in BOOLEAN :
       IF ok
       THEN \E failed \in SUBSET (1..Len(f.request.operations)) :
              LET after == BulkApply(stored, f.request.operations, failed, 1)
              IN  /\ stored' = after
                  /\ searchable' = Visible(f.request.refresh, searchable, after)
                  /\ Answered(c, BulkResponse(f.request.operations, failed))
       ELSE /\ Answered(c, Failed)
            /\ UNCHANGED <<stored, searchable>>
  /\ UNCHANGED <<last, vecOps, fnVars, ixVars>>

\* the positions the bulk response reports as failed
FailedItems(response) ==
  IF response.ok THEN {i \in DOMAIN response.items : response.items[i].error}
  ELSE {}

\* upsert, lines 228-268: after the await of client.bulk
UpsertAnswered(c) ==
  LET f == vecCalls[c] IN
  /\ f.op = "upsert" /\ f.pc = "answered"
  /\ Ended(c, [op |-> "upsert", params |-> f.params, vectorIds |-> f.vectorIds,
               request |-> f.request, responded |-> f.response.ok,
               failed |-> FailedItems(f.response)]
              @@ (IF f.response.ok THEN UpsertResult(f.vectorIds, f.response)
                  ELSE Raised))
  /\ UNCHANGED <<stored, searchable, vecOps, fnVars, ixVars>>

\* lines 480-488: the partial document of updateVector
UpdateBody_whole(update) ==
  [has_vector |-> TRUE,
   vector |-> IF update.has_vector THEN update.vector ELSE << >>,
   has_metadata |-> TRUE,
   metadata |-> IF update.has_metadata THEN update.metadata ELSE NoMetadata]

UpdateBody(update) ==
  [has_vector |-> update.has_vector,
   vector |-> IF update.has_vector THEN update.vector ELSE << >>,
   has_metadata |-> update.has_metadata,
   metadata |-> IF update.has_metadata THEN update.metadata ELSE NoMetadata]

\* lines 495-502
UpdateRequest(id, updateBody) == [refresh |-> TRUE, id |-> id, doc |-> updateBody]

\* backend: a partial document merged into a stored one
MergeDoc(d, body) ==
  Doc(d.id,
      IF body.has_vector THEN body.vector ELSE d.vector,
      IF body.has_metadata
      THEN body.metadata \cup {p \in d.metadata : \A q \in body.metadata : q[1] # p[1]}
      ELSE d.metadata)

Updates ==
  {[has_vector |-> hv, vector |-> v, has_metadata |-> hm, metadata |-> MetaJ] :
     hv \in BOOLEAN, v \in {<<"w", 1>>}, hm \in BOOLEAN}

\* updateVector, lines 476-502: up to the await of client.update, or to the
\* return of line 492 when the update holds nothing
StartUpdateVector(c, id, update) ==
  /\ CanStartVec(c)
  /\ LET updateBody == UpdateBody(update)
         call == [op |-> "updateVector", id |-> id, update |-> update]
     IN  IF ~updateBody.has_vector /\ ~updateBody.has_metadata
         THEN Ended(c, call @@ [request |-> NoRequest, responded |-> FALSE]
                            @@ Returned(<< >>))
         ELSE /\ Sent(c, call @@ [request |-> UpdateRequest(id, updateBody)])
              /\ UNCHANGED last
  /\ vecOps' = vecOps + 1
  /\ UNCHANGED <<stored, searchable, fnVars, ixVars>>

\* backend: the update request of caller c is taken and answered; it fails
\* for an id the index does not hold
ClientUpdate(c) ==
  LET f == vecCalls[c] IN
  /\ f.op = "updateVector" /\ f.pc = "sent"
  /\ \E ok \in BOOLEAN :
       IF ok /\ HasDoc(stored, f.request.id)
       THEN LET after == (stored \ {DocOf(stored, f.request.id)})
                           \cup {MergeDoc(DocOf(stored, f.request.id), f.request.doc)}
            IN  /\ stored' = after
                /\ searchable' = Visible(f.request.refresh, searchable, after)
                /\ Answered(c, [ok |-> TRUE])
       ELSE /\ Answered(c, Failed)
            /\ UNCHANGED <<stored, searchable>>
  /\ UNCHANGED <<last, vecOps, fnVars, ixVars>>

\* updateVector, lines 495-509: after the await of client.update
UpdateAnswered(c) ==
  LET f == vecCalls[c] IN
  /\ f.op = "updateVector" /\ f.pc = "answered"
  /\ Ended(c, [op |-> "updateVector", id |-> f.id, update |-> f.update,
               request |-> f.request, responded |-> f.response.ok]
              @@ (IF f.response.ok THEN Returned(<< >>) ELSE Raised))
  /\ UNCHANGED <<stored, searchable, vecOps, fnVars, ixVars>>

\* lines 522-526
DeleteRequest(id) == [refresh |-> TRUE, id |-> id]

\* deleteVector, lines 518-526: up to the await of client.delete
StartDeleteVector(c, id) ==
  /\ CanStartVec(c)
  /\ Sent(c, [op |-> "deleteVector", id |-> id, request |-> DeleteRequest(id)])
  /\ vecOps' = vecOps + 1
  /\ UNCHANGED <<stored, searchable, last, fnVars, ixVars>>

\* backend: the delete request of caller c is taken and answered; it fails
\* for an id the index does not hold
ClientDelete(c) ==
  LET f == vecCalls[c] IN
  /\ f.op = "deleteVector" /\ f.pc = "sent"
  /\ \E ok \in BOOLEAN :
       IF ok /\ HasDoc(stored, f.request.id)
       THEN LET after == stored \ {DocOf(stored, f.request.id)}
            IN  /\ stored' = after
                /\ searchable' = Visible(f.request.refresh, searchable, after)
                /\ Answered(c, [ok |-> TRUE])
       ELSE /\ Answered(c, Failed)
            /\ UNCHANGED <<stored, searchable>>
  /\ UNCHANGED <<last, vecOps, fnVars, ixVars>>

\* deleteVector, lines 522-533: after the await of client.delete
DeleteAnswered(c) ==
  LET f == vecCalls[c] IN
  /\ f.op = "deleteVector" /\ f.pc = "answered"
  /\ Ended(c, [op |-> "deleteVector", id |-> f.id, request |-> f.request,
               responded |-> f.response.ok]
              @@ (IF f.response.ok THEN Returned(<< >>) ELSE Raised))
  /\ UNCHANGED <<stored, searchable, vecOps, fnVars, ixVars>>

\* lines 281-303: the search request of query
SearchRequest(params) ==
  [knn |-> [field |-> "vector", query_vector |-> params.queryVector,
            k |-> params.topK,
            num_candidates |-> IF params.topK * 10 >= 100 THEN params.topK * 10 ELSE 100,
            filter |-> IF params.filter.kind \in {"undefined", "null"}
                       THEN Undefined
                       ELSE buildElasticFilter(params.filter)],
   size |-> params.topK,
   source |-> IF params.includeVector THEN <<"metadata", "vector">>
              ELSE <<"metadata">>]

\* lines 305-310: one result of query
QueryHit(d, includeVector) ==
  [id |-> d.id, metadata |-> d.metadata,
   vector |-> IF includeVector THEN d.vector ELSE << >>]

\* the filters of the queries: none, an empty one, one whose only field has
\* an operator the adapter does not know, one with such a field and a
\* literal, and a literal alone
QueryFilters ==
  {Undefined,
   Obj(<< >>),
   Obj(<< <<<<"k">>, Obj(<< <<"$regex", Scalar(1)>> >>)>> >>),
   Obj(<< <<<<"k">>, Obj(<< <<"$regex", Scalar(1)>> >>)>>, <<<<"j">>, Scalar(2)>> >>),
   Obj(<< <<<<"k">>, Scalar(1)>> >>)}

\* the queries: for one record without its vector, or for many with it
QueryParams ==
  {[queryVector |-> v, topK |-> k[1], filter |-> flt, includeVector |-> k[2]] :
     v \in {<<"u", 1>>}, k \in {<<1, FALSE>>, <<11, TRUE>>}, flt \in QueryFilters}

\* backend: the metadata entry p = <<key, value>> of a document is indexed
\* as metadata.<key> and as metadata.<key>.keyword
EntryMatches(p, clause) ==
  IF clause.clause = "term" THEN
    /\ clause.field = S_metadataDot \o <<p[1]>> \o S_dotKeyword
    /\ clause.value = Scalar(p[2])
  ELSE IF clause.clause = "terms" THEN
    /\ clause.field = S_metadataDot \o <<p[1]>> \o S_dotKeyword
    /\ \E i \in DOMAIN clause.value.elems : clause.value.elems[i] = Scalar(p[2])
  ELSE IF clause.clause = "range" THEN
    /\ clause.field = S_metadataDot \o <<p[1]>>
    /\ clause.value.kind = "scalar"
    /\ \/ clause.bound = "gt"  /\ p[2] > clause.value.num
       \/ clause.bound = "gte" /\ p[2] >= clause.value.num
       \/ clause.bound = "lt"  /\ p[2] < clause.value.num
       \/ clause.bound = "lte" /\ p[2] <= clause.value.num
  ELSE FALSE

\* backend: the document passes one clause of bool.must
ClauseMatches(d, clause) ==
  IF clause.clause = "bool"
  THEN ~\E p \in d.metadata : EntryMatches(p, clause.must_not)
  ELSE \E p \in d.metadata : EntryMatches(p, clause)

\* backend: the documents a k-NN search with this filter may return; a
\* search without a filter may return any document
KnnCandidates(docs, filter) ==
  IF "bool" \in DOMAIN filter
  THEN {d \in docs : \A j \in DOMAIN filter.bool.must :
                       ClauseMatches(d, filter.bool.must[j])}
  ELSE docs

\* backend: the sequences that list each element of a set once; the order
\* in which the backend lists the documents it found is its own
RECURSIVE InSomeOrder(_)
InSomeOrder(S) ==
  IF S = {} THEN {<< >>}
  ELSE UNION {{<<x>> \o rest : rest \in InSomeOrder(S \ {x})} : x \in S}

\* query, lines 277-303: up to the await of client.search
StartQuery(c, params) ==
  /\ CanStartVec(c)
  /\ Sent(c, [op |-> "query", params |-> params, request |-> SearchRequest(params)])
  /\ vecOps' = vecOps + 1
  /\ UNCHANGED <<stored, searchable, last, fnVars, ixVars>>

\* backend: the search request of caller c is taken and answered, with
\* `size` of the documents a search sees and the filter lets through, or
\* with all of them when they are fewer, listed in any order; or it fails
ClientSearch(c) ==
  LET f == vecCalls[c]
      candidates == KnnCandidates(searchable, f.request.knn.filter)
  IN
  /\ f.op = "query" /\ f.pc = "sent"
  /\ \E ok \in BOOLEAN :
       IF ok
       THEN \E found \in SUBSET candidates :
              /\ Cardinality(found) <= f.request.size
              /\ Cardinality(found) < f.request.size => found = candidates
              /\ \E hits \in InSomeOrder(found) :
                   Answered(c, [ok |-> TRUE, hits |-> hits])
       ELSE Answered(c, Failed)
  /\ UNCHANGED <<stored, searchable, last, vecOps, fnVars, ixVars>>

\* query, lines 298-318: after the await of client.search
QueryAnswered(c) ==
  LET f == vecCalls[c] IN
  /\ f.op = "query" /\ f.pc = "answered"
  /\ Ended(c, [op |-> "query", params |-> f.params, request |-> f.request,
               responded |-> f.response.ok]
              @@ (IF f.response.ok
                  THEN Returned([i \in 1..Len(f.response.hits) |->
                                   QueryHit(f.response.hits[i], f.params.includeVector)])
                  ELSE Raised))
  /\ UNCHANGED <<stored, searchable, vecOps, fnVars, ixVars>>

\* the steps that follow the start of an operation of caller c
VecStep(c) ==
  \/ ClientBulk(c)
  \/ UpsertAnswered(c)
  \/ ClientUpdate(c)
  \/ UpdateAnswered(c)
  \/ ClientDelete(c)
  \/ DeleteAnswered(c)
  \/ ClientSearch(c)
  \/ QueryAnswered(c)

\* the index holds nothing, or one document written earlier
InitDocs == {{}, {Doc(S_a, <<"u", 0>>, MetaK)}}

\* one caller, who awaits each call before making the next
InitVec ==
  /\ stored \in InitDocs
  /\ searchable = stored
  /\ last = [op |-> "none"]
  /\ vecOps = 0
  /\ vecCalls = [c \in {1} |-> IdleVecFrame]
  /\ FnIdle /\ IxIdle

NextVec ==
  \E c \in DOMAIN vecCalls :
    \/ \E params \in UpsertParams : StartUpsert(c, params)
    \/ \E id \in CallerIds, update \in Updates : StartUpdateVector(c, id, update)
    \/ \E id \in CallerIds : StartDeleteVector(c, id)
    \/ \E params \in QueryParams : StartQuery(c, params)
    \/ VecStep(c)

\* NumCallers callers, none of whom waits for another: each upserts one
\* record, updates the record written earlier, deletes, or queries without
\* a filter
InitRace ==
  /\ stored \in InitDocs
  /\ searchable = stored
  /\ last = [op |-> "none"]
  /\ vecOps = 0
  /\ vecCalls = [c \in Callers |-> IdleVecFrame]
  /\ FnIdle /\ IxIdle

NextRace ==
  \E c \in DOMAIN vecCalls :
    \/ \E params \in {p \in UpsertParams : Len(p.vectors) = 1} : StartUpsert(c, params)
    \/ \E update \in Updates : StartUpdateVector(c, S_a, update)
    \/ \E id \in CallerIds : StartDeleteVector(c, id)
    \/ \E params \in {p \in QueryParams : p.filter = Undefined} : StartQuery(c, params)
    \/ VecStep(c)

----------------------------------------------------------------------------
(* SpecFn: the functions of the adapter applied to inputs drawn from        *)
(* bounded sets.                                                            *)

MaxFields  == 2   \* fields of a filter
MaxCatalog == 3   \* indices of a catalog listing

S_Cosine      == <<"C","o","s","i","n","e">>
S_EUCLIDEAN   == <<"E","U","C","L","I","D","E","A","N">>
S_DotProduct  == <<"D","o","t","P","r","o","d","u","c","t">>
S_L2_NORM     == <<"L","2","_","N","O","R","M">>
S_max_inner   == <<"m","a","x","_","i","n","n","e","r">>

SupportedMetrics == {S_cosine, S_euclidean, S_dotproduct}

MetricInputs ==
  SupportedMetrics \cup
  {S_dot_product, S_Cosine, S_EUCLIDEAN, S_DotProduct, <<"m","a","n","h","a","t","t","a","n">>,
   S_constructor, S_proto, S_toString, S_valueOf, << >>}

SimilarityInputs ==
  {S_cosine, S_l2_norm, S_dot_product, S_L2_NORM, S_Cosine, S_max_inner,
   S_constructor, S_proto, S_toString, S_valueOf, S_hasOwnProperty}

OpNames == {"$eq", "$in", "$ne", "$gt", "$gte", "$lt", "$lte", "$regex"}

FilterValues ==
  {Null, Undefined, Scalar(1), Arr(<<Scalar(1), Scalar(2)>>), Obj(<< >>)}
  \cup {Obj(<< <<op, v>> >>) : op \in OpNames,
                               v \in {Scalar(5), Arr(<<Scalar(1), Scalar(2)>>)}}
  \cup {Obj(<< <<"$gt", Scalar(1)>>, <<"$eq", Scalar(5)>> >>),
        Obj(<< <<"$lte", Scalar(9)>>, <<"$gte", Scalar(5)>> >>),
        Obj(<< <<"$in", Scalar(5)>>, <<"$ne", Scalar(1)>> >>)}

FieldKeys == {<<"s">>, <<"n">>, <<"7">>, <<"1", "0">>}

\* objects have one property per name; a filter may also be no object at
\* all, or an array
FilterInputs ==
  {Undefined, Null, Scalar(1), Arr(<< >>), Arr(<<Scalar(5)>>),
   Arr(<<Null, Obj(<< <<"$gt", Scalar(1)>> >>)>>)} \cup
  {Obj(es) : es \in {e \in SeqsUpTo(FieldKeys \X FilterValues, MaxFields) :
                       Injective([i \in DOMAIN e |-> e[i][1]])}}

CatalogNames == {<<"a">>, <<".", "k">>, <<"a", ".", "b">>, <<".">>}

CatalogResponses ==
  {Failed} \cup
  {Rows(ns) : ns \in {n \in SeqsUpTo(CatalogNames, MaxCatalog) : Injective(n)}}

InitFn == FnIdle /\ IxIdle /\ VecIdle

MetricRoundTrip ==
  /\ fnOp = "idle"
  /\ \E metric \in MetricInputs :
       /\ fnOp' = "mapMetricToSimilarity"
       /\ fnIn' = metric
       /\ fnOut' = [similarity |-> mapMetricToSimilarity(metric),
                    metric |-> mapSimilarityToMetric(mapMetricToSimilarity(metric))]
  /\ UNCHANGED <<ixVars, vecVars>>

SimilarityToMetric ==
  /\ fnOp = "idle"
  /\ \E similarity \in SimilarityInputs :
       /\ fnOp' = "mapSimilarityToMetric"
       /\ fnIn' = similarity
       /\ fnOut' = mapSimilarityToMetric(similarity)
  /\ UNCHANGED <<ixVars, vecVars>>

BuildFilter ==
  /\ fnOp = "idle"
  /\ \E filter \in FilterInputs :
       /\ fnOp' = "buildElasticFilter"
       /\ fnIn' = filter
       /\ fnOut' = buildElasticFilter(filter)
  /\ UNCHANGED <<ixVars, vecVars>>

\* listIndexes, lines 326-328: up to the await of client.cat.indices
StartListIndexes ==
  /\ fnOp = "idle"
  /\ fnOp' = "listIndexes"
  /\ fnIn' = [pc |-> "sent", request |-> [format |-> "json"]]
  /\ fnOut' = << >>
  /\ UNCHANGED <<ixVars, vecVars>>

\* backend: the catalog request is taken and answered with the listing of
\* the indices the cluster holds at that time, or it fails
ClientCatIndices ==
  /\ fnOp = "listIndexes" /\ fnIn.pc = "sent"
  /\ \E response \in CatalogResponses :
       fnIn' = [pc |-> "answered", response |-> response]
  /\ UNCHANGED <<fnOp, fnOut, ixVars, vecVars>>

\* listIndexes, lines 328-342: after the await of client.cat.indices
ListIndexesAnswered ==
  /\ fnOp = "listIndexes" /\ fnIn.pc = "answered"
  /\ fnIn' = [fnIn EXCEPT !.pc = "done"]
  /\ fnOut' = listIndexes(fnIn.response)
  /\ UNCHANGED <<fnOp, ixVars, vecVars>>

NextFn ==
  \/ MetricRoundTrip
  \/ SimilarityToMetric
  \/ BuildFilter
  \/ StartListIndexes
  \/ ClientCatIndices
  \/ ListIndexesAnswered

vars == <<fnVars, ixVars, vecVars>>

SpecFn == InitFn /\ [][NextFn]_vars

Spec == Init /\ [][Next]_vars

SpecVec == InitVec /\ [][NextVec]_vars

SpecRace == InitRace /\ [][NextRace]_vars

\* cluster-info responses: each indicator present, absent, or naming
\* another flavor, and the tagline in several letter cases
InfoInputs ==
  {Info(hasFlavor, flavor, hasTagline, tagline) :
     hasFlavor \in BOOLEAN, flavor \in {"serverless", "default", "Serverless"},
     hasTagline \in BOOLEAN,
     tagline \in {S_tagSearch, <<"S","e","r","v","e","r","l","e","s","s","!">>,
                  <<"S","E","R","V","E","R","L","E","S","S">>, S_serverless}}

\* Detection on any cluster: an adapter constructed without isServerless,
\* used by one caller who awaits each operation, on a cluster that answers
\* the cluster-info request with any of InfoInputs
InitDetect ==
  /\ config = "undefined"
  /\ maxCountAccuracy = ConfiguredCeiling(<< >>)
  /\ isServerless = config
  /\ deploymentChecked = FALSE
  /\ clusterInfo \in InfoInputs
  /\ indices \in [IndexNames -> {Absent, Index("dense_vector", 4, S_l2_norm, NoSettings, 20000)}]
  /\ calls = [c \in {1} |-> IdleFrame]
  /\ infoRequests = 0
  /\ opsStarted = 0
  /\ FnIdle /\ VecIdle

SpecDetect == InitDetect /\ [][Next]_vars

\* All the public operations of the class: an adapter is used for the index
\* lifecycle, for one operation on the vectors of an index, or for one
\* function call.
InitAll == Init \/ InitVec \/ InitFn

NextAll ==
  \/ DOMAIN calls # {} /\ Next
  \/ DOMAIN calls = {} /\ fnOp = "idle" /\ NextVec /\ vecOps' <= 1
  \/ DOMAIN calls = {} /\ VecIdle /\ NextFn

SpecAll == InitAll /\ [][NextAll]_vars

----------------------------------------------------------------------------
(* Properties of SpecFn *)

\* C4: for each supported metric m, mapping m to the backend similarity and
\* back yields m, and the similarity produced for m is produced for no other
\* supported metric.
C4_MetricRoundTrip ==
  (fnOp = "mapMetricToSimilarity" /\ fnIn \in SupportedMetrics) =>
     /\ fnOut.metric = fnIn
     /\ \A other \in SupportedMetrics \ {fnIn} :
          mapMetricToSimilarity(other) # fnOut.similarity

C4_Witness ==
  /\ fnOp = "mapMetricToSimilarity"
  /\ fnIn = S_euclidean
  /\ fnOut = [similarity |-> S_l2_norm, metric |-> S_euclidean]

\* the entries C5 speaks of: a literal that is present, or an operator
\* object with one recognized operator ($in with a list)
C5_Recognized == {"$eq", "$in", "$ne", "$gt", "$gte", "$lt", "$lte"}

C5_IsCase(value) ==
  \/ value.kind \in {"scalar", "array"}
  \/ /\ value.kind = "object"
     /\ Len(value.props) = 1
     /\ value.props[1][1] \in C5_Recognized
     /\ value.props[1][1] = "$in" => value.props[1][2].kind = "array"

C5_Exact(key) == <<"m","e","t","a","d","a","t","a",".">> \o key \o <<".","k","e","y","w","o","r","d">>
C5_Raw(key)   == <<"m","e","t","a","d","a","t","a",".">> \o key

C5_IsExpected(clause, key, value) ==
  IF value.kind # "object"
  THEN clause = [clause |-> "term", field |-> C5_Exact(key), value |-> value]
  ELSE LET op == value.props[1][1]
           v  == value.props[1][2]
       IN  CASE op = "$eq"  -> clause = [clause |-> "term", field |-> C5_Exact(key), value |-> v]
             [] op = "$in"  -> clause = [clause |-> "terms", field |-> C5_Exact(key), value |-> v]
             [] op = "$ne"  -> clause = [clause |-> "bool", must_not |->
                                 [clause |-> "term", field |-> C5_Exact(key), value |-> v]]
             [] op = "$gt"  -> clause = [clause |-> "range", field |-> C5_Raw(key), bound |-> "gt", value |-> v]
             [] op = "$gte" -> clause = [clause |-> "range", field |-> C5_Raw(key), bound |-> "gte", value |-> v]
             [] op = "$lt"  -> clause = [clause |-> "range", field |-> C5_Raw(key), bound |-> "lt", value |-> v]
             [] op = "$lte" -> clause = [clause |-> "range", field |-> C5_Raw(key), bound |-> "lte", value |-> v]

\* C5: in any filter, each field that is a present literal or a single
\* recognized operator has its clause in the result: a term clause for a
\* literal or $eq, a terms clause for $in with a list, a negated term
\* clause for $ne, each on metadata.<field>.keyword, and a range clause
\* with the matching bound on metadata.<field> for $gt, $gte, $lt and $lte.
\* A filter whose fields are all of this kind compiles to these clauses
\* and no other.
C5_FilterOperators ==
  (fnOp = "buildElasticFilter" /\ fnIn.kind = "object") =>
    LET es == fnIn.props
        cases == {i \in DOMAIN es : C5_IsCase(es[i][2])}
    IN  /\ cases # {} =>
             /\ "bool" \in DOMAIN fnOut
             /\ \A i \in cases : \E j \in DOMAIN fnOut.bool.must :
                  C5_IsExpected(fnOut.bool.must[j], es[i][1], es[i][2])
        /\ (cases = DOMAIN es /\ es # << >>) =>
             /\ Len(fnOut.bool.must) = Len(es)
             /\ \A j \in DOMAIN fnOut.bool.must : \E i \in DOMAIN es :
                  C5_IsExpected(fnOut.bool.must[j], es[i][1], es[i][2])

C5_Witness ==
  /\ fnOp = "buildElasticFilter"
  /\ fnIn = Obj(<< <<<<"s">>, Obj(<< <<"$in", Arr(<<Scalar(1), Scalar(2)>>)>> >>)>>,
                   <<<<"n">>, Obj(<< <<"$gte", Scalar(5)>> >>)>> >>)
  /\ fnOut = [bool |-> [must |->
       << [clause |-> "terms",
           field |-> <<"m","e","t","a","d","a","t","a",".","s",".","k","e","y","w","o","r","d">>,
           value |-> Arr(<<Scalar(1), Scalar(2)>>)],
          [clause |-> "range",
           field |-> <<"m","e","t","a","d","a","t","a",".","n">>,
           bound |-> "gte", value |-> Scalar(5)] >>]]

\* position of a name in a listing without repeated names
C7_Pos(names, name) == CHOOSE i \in DOMAIN names : names[i] = name

\* C7: listIndexes returns exactly the names of the catalog listing whose
\* first character is not '.', in the order of the listing.
C7_ListIndexes ==
  (fnOp = "listIndexes" /\ fnIn.pc = "done" /\ fnIn.response.ok) =>
    LET rows == fnIn.response.rows IN
    /\ fnOut.status = "returned"
    /\ {fnOut.value[i] : i \in DOMAIN fnOut.value}
         = {rows[i] : i \in {k \in DOMAIN rows : rows[k][1] # "."}}
    /\ \A i, j \in DOMAIN fnOut.value :
         i < j => C7_Pos(rows, fnOut.value[i]) < C7_Pos(rows, fnOut.value[j])

C7_Witness ==
  /\ fnOp = "listIndexes" /\ fnIn.pc = "done"
  /\ fnIn.response = Rows(<< <<".", "k">>, <<"a", ".", "b">>, <<"a">> >>)
  /\ fnOut = Returned(<< <<"a", ".", "b">>, <<"a">> >>)

\* the tables of the two mapping directions as the specification gives them
C16_Similarity(metric) ==
  CASE metric = <<"c","o","s","i","n","e">> -> <<"c","o","s","i","n","e">>
    [] metric = <<"e","u","c","l","i","d","e","a","n">> -> <<"l","2","_","n","o","r","m">>
    [] metric = <<"d","o","t","p","r","o","d","u","c","t">> -> <<"d","o","t","_","p","r","o","d","u","c","t">>

C16_Metric(similarity) ==
  CASE similarity = <<"c","o","s","i","n","e">> -> <<"c","o","s","i","n","e">>
    [] similarity = <<"l","2","_","n","o","r","m">> -> <<"e","u","c","l","i","d","e","a","n">>
    [] similarity = <<"d","o","t","_","p","r","o","d","u","c","t">> -> <<"d","o","t","p","r","o","d","u","c","t">>

\* C16: for an input that is, letter case aside, one of the three generic
\* metric names, mapMetricToSimilarity returns the similarity of the
\* lower-case name; for an input that is, letter case aside, one of the
\* three backend similarity ids, mapSimilarityToMetric returns the metric of
\* the lower-case id.
C16_CaseInsensitive ==
  /\ (/\ fnOp = "mapMetricToSimilarity"
      /\ toLowerCase(fnIn) \in {<<"c","o","s","i","n","e">>,
                                <<"e","u","c","l","i","d","e","a","n">>,
                                <<"d","o","t","p","r","o","d","u","c","t">>}) =>
       fnOut.similarity = C16_Similarity(toLowerCase(fnIn))
  /\ (/\ fnOp = "mapSimilarityToMetric"
      /\ toLowerCase(fnIn) \in {<<"c","o","s","i","n","e">>,
                                <<"l","2","_","n","o","r","m">>,
                                <<"d","o","t","_","p","r","o","d","u","c","t">>}) =>
       fnOut = C16_Metric(toLowerCase(fnIn))

\* C17: mapMetricToSimilarity returns cosine for every input that, in lower
\* case, is none of the four keys of its table, and one of the three
\* similarity ids for every input; mapSimilarityToMetric returns cosine for
\* every input that is none of the three keys of its table, and one of the
\* three metric names for every input.
C17_CosineDefault ==
  /\ fnOp = "mapMetricToSimilarity" =>
       /\ toLowerCase(fnIn) \notin {<<"c","o","s","i","n","e">>,
                                   <<"e","u","c","l","i","d","e","a","n">>,
                                   <<"d","o","t","p","r","o","d","u","c","t">>,
                                   <<"d","o","t","_","p","r","o","d","u","c","t">>}
            => fnOut.similarity = <<"c","o","s","i","n","e">>
       /\ fnOut.similarity \in {<<"c","o","s","i","n","e">>,
                                <<"l","2","_","n","o","r","m">>,
                                <<"d","o","t","_","p","r","o","d","u","c","t">>}
  /\ fnOp = "mapSimilarityToMetric" =>
       /\ fnIn \notin {<<"c","o","s","i","n","e">>,
                       <<"l","2","_","n","o","r","m">>,
                       <<"d","o","t","_","p","r","o","d","u","c","t">>}
            => fnOut = <<"c","o","s","i","n","e">>
       /\ fnOut \in {<<"c","o","s","i","n","e">>,
                     <<"e","u","c","l","i","d","e","a","n">>,
                     <<"d","o","t","p","r","o","d","u","c","t">>}

\* the operators in the order C23 gives them
C23_Order == <<"$eq", "$in", "$ne", "$gt", "$gte", "$lt", "$lte">>

C23_Has(value, op) == \E i \in DOMAIN value.props : value.props[i][1] = op
C23_Val(value, op) ==
  value.props[CHOOSE i \in DOMAIN value.props : value.props[i][1] = op][2]

\* an operator the field can use: one it holds, $in only with a list
C23_Usable(value, op) ==
  C23_Has(value, op) /\ (op = "$in" => C23_Val(value, "$in").kind = "array")

\* the first operator of the order that the operator object holds, and the
\* first one that it can use
C23_FirstHeld(value) ==
  C23_Order[CHOOSE k \in 1..7 : /\ C23_Has(value, C23_Order[k])
                                /\ \A m \in 1..(k - 1) : ~C23_Has(value, C23_Order[m])]
C23_FirstUsable(value) ==
  C23_Order[CHOOSE k \in 1..7 : /\ C23_Usable(value, C23_Order[k])
                                /\ \A m \in 1..(k - 1) : ~C23_Usable(value, C23_Order[m])]

\* the clause of operator op with operand v on the field named key
C23_Clause(key, op, v) ==
  LET exact == <<"m","e","t","a","d","a","t","a",".">> \o key \o <<".","k","e","y","w","o","r","d">>
      raw   == <<"m","e","t","a","d","a","t","a",".">> \o key
  IN  CASE op = "$eq"  -> [clause |-> "term", field |-> exact, value |-> v]
        [] op = "$in"  -> [clause |-> "terms", field |-> exact, value |-> v]
        [] op = "$ne"  -> [clause |-> "bool", must_not |->
                             [clause |-> "term", field |-> exact, value |-> v]]
        [] op = "$gt"  -> [clause |-> "range", field |-> raw, bound |-> "gt", value |-> v]
        [] op = "$gte" -> [clause |-> "range", field |-> raw, bound |-> "gte", value |-> v]
        [] op = "$lt"  -> [clause |-> "range", field |-> raw, bound |-> "lt", value |-> v]
        [] op = "$lte" -> [clause |-> "range", field |-> raw, bound |-> "lte", value |-> v]

\* the fields of a filter in field order: the order in which the language
\* lists the properties of the object (names that are array indices first,
\* ascending, then the others as inserted), the elements of an array
\* filter under their positions
C23_Fields(filter) == ObjectEntries(filter)

\* C23 as stated: the result is no filter or one bool.must whose clauses
\* are no more than the fields and belong, in order, to distinct fields
\* that are not null or undefined: a literal's clause is its term clause,
\* an operator object's clause is that of the first operator of the order
\* that the object holds.
C23_OneClausePerField ==
  (fnOp = "buildElasticFilter" /\ fnIn.kind \in {"object", "array"}
   /\ fnOut # [kind |-> "undefined"]) =>
    LET es == C23_Fields(fnIn)
        must == fnOut.bool.must
    IN  /\ DOMAIN fnOut = {"bool"} /\ DOMAIN fnOut.bool = {"must"}
        /\ Len(must) >= 1 /\ Len(must) <= Len(es)
        /\ \E idx \in [DOMAIN must -> DOMAIN es] :
             /\ \A i, j \in DOMAIN must : i < j => idx[i] < idx[j]
             /\ \A j \in DOMAIN must :
                  LET key == es[idx[j]][1]
                      value == es[idx[j]][2]
                  IN  /\ value.kind \notin {"null", "undefined"}
                      /\ IF value.kind = "object"
                         THEN /\ \E k \in 1..7 : C23_Has(value, C23_Order[k])
                              /\ must[j] = C23_Clause(key, C23_FirstHeld(value),
                                                      C23_Val(value, C23_FirstHeld(value)))
                         ELSE must[j] = [clause |-> "term",
                                         field |-> <<"m","e","t","a","d","a","t","a",".">>
                                                     \o key \o <<".","k","e","y","w","o","r","d">>,
                                         value |-> value]

\* the fields that give a clause: a literal that is there, or an operator
\* object with an operator it can use
C23_Gives(e) ==
  /\ e[2].kind \notin {"null", "undefined"}
  /\ e[2].kind = "object" => \E k \in 1..7 : C23_Usable(e[2], C23_Order[k])

\* C23, amended: $in counts only when its operand is a list. The fields
\* that give a clause give exactly one each, in field order, under one
\* bool.must: a literal its term clause, an operator object the clause of
\* the first operator of the order that it can use; the other fields give
\* none, and with no clause at all the result is no filter.
C23_FirstUsableClause ==
  (fnOp = "buildElasticFilter" /\ fnIn.kind \in {"object", "array"}) =>
    LET kept == SelectSeq(C23_Fields(fnIn), C23_Gives) IN
    IF kept = << >> THEN fnOut = [kind |-> "undefined"]
    ELSE /\ DOMAIN fnOut = {"bool"} /\ DOMAIN fnOut.bool = {"must"}
         /\ Len(fnOut.bool.must) = Len(kept)
         /\ Len(fnOut.bool.must) <= Len(C23_Fields(fnIn))
         /\ \A i \in DOMAIN kept :
              LET key == kept[i][1]
                  value == kept[i][2]
              IN  fnOut.bool.must[i] =
                    IF value.kind = "object"
                    THEN C23_Clause(key, C23_FirstUsable(value),
                                    C23_Val(value, C23_FirstUsable(value)))
                    ELSE C23_Clause(key, "$eq", value)

C23_Witness ==
  /\ fnOp = "buildElasticFilter"
  /\ fnIn = Obj(<< <<<<"n">>, Null>>,
                   <<<<"s">>, Obj(<< <<"$in", Scalar(5)>>, <<"$ne", Scalar(1)>> >>)>> >>)
  /\ fnOut = [bool |-> [must |->
       << [clause |-> "bool", must_not |->
             [clause |-> "term",
              field |-> <<"m","e","t","a","d","a","t","a",".","s",".","k","e","y","w","o","r","d">>,
              value |-> Scalar(1)]] >>]]

----------------------------------------------------------------------------
(* Properties of Spec *)

\* caller c took a step from the place pc of its operation
Stepped(c, pc) == calls[c].pc = pc /\ calls'[c] # calls[c]

\* the answer to the request caller c awaited at pc reached it, and the
\* backend had answered "ok"
Delivered(c, pc) ==
  /\ calls[c].pc = pc /\ calls[c].response # NoResponse
  /\ calls[c].response.status = "ok"
  /\ calls'[c] # calls[c]

\* C2: a createIndex that finds the index existing with a dimension other
\* than the requested one raises, sends no index-create request and leaves
\* the index as it is; and no step other than a deleteIndex changes an
\* index that exists, so until it is deleted an index keeps the dimension
\* and similarity it was created with.
C2_DimensionMismatch ==
  [][ /\ \A c \in Callers :
           LET f == calls[c]
               index == f.response.index
           IN  (Delivered(c, "ci_validate") /\ index.exists /\ index.dims # f.dimension) =>
                  /\ calls'[c].pc = "done"
                  /\ calls'[c].outcome = "raised"
                  /\ calls'[c].createRequest = NoRequest
                  /\ indices' = indices
      /\ \A n \in IndexNames :
           (indices[n].exists /\ indices'[n] # indices[n]) =>
              \E c \in Callers : calls[c].op = "deleteIndex" /\ Stepped(c, "xi_delete")
    ]_vars

C2_Witness ==
  \E c \in Callers :
    /\ calls[c].op = "createIndex" /\ calls[c].outcome = "raised"
    /\ calls[c].exists = "true" /\ calls[c].createRequest = NoRequest
    /\ calls[c].dimension = 4
    /\ indices[calls[c].indexName].exists
    /\ indices[calls[c].indexName].dims = 3
    /\ indices[calls[c].indexName].similarity = << >>

\* C3: once deploymentChecked is set, no step issues a cluster-info request.
C3_DetectOnce ==
  [][deploymentChecked => infoRequests' = infoRequests]_vars

C3_Witness ==
  /\ infoRequests = 1
  /\ \E c, d \in Callers :
       /\ calls[c].pc = "done" /\ calls[c].detect = "info"
       /\ calls[d].pc = "done" /\ calls[d].detect = "cached"

\* the generic metric of a backend similarity, as the specification gives it
C6_Metric(index) ==
  CASE index.similarity = <<"l","2","_","n","o","r","m">> -> <<"e","u","c","l","i","d","e","a","n">>
    [] index.similarity = <<"d","o","t","_","p","r","o","d","u","c","t">> -> <<"d","o","t","p","r","o","d","u","c","t">>
    [] OTHER -> <<"c","o","s","i","n","e">>

\* C6: describeIndex, when the mapping it asked for reaches it, raises one
\* of the two "not configured" errors when the mapping has no vector field,
\* a vector field of another type, or no dims; with any other mapping it
\* goes on, and raises only when a backend request failed; what it returns,
\* by the primary or the fallback count call alike, is the dims of the
\* mapping, the metric of its similarity and a count >= 0.
C6_DescribeIndex ==
  [][\A c \in Callers :
       LET f == calls[c]
           g == calls'[c]
           index == f.response.index
       IN  /\ Delivered(c, "di_mapping") =>
                IF index.vector_type # "dense_vector" \/ index.dims = 0
                THEN g.pc = "done" /\ g.outcome = "raised"
                     /\ g.error \in {"not_vector_index", "no_dims"}
                ELSE /\ g.outcome = "none"
                     /\ g.result.dimension = index.dims
                     /\ g.result.metric = C6_Metric(index)
           /\ (Stepped(c, "di_mapping") /\ f.response # NoResponse
               /\ f.response.status # "ok") =>
                g.pc = "done" /\ g.outcome = "raised" /\ g.error = "backend"
           /\ (f.op = "describeIndex" /\ f.pc # "done" /\ g.pc = "done"
               /\ g.outcome = "returned") =>
                /\ f.pc \in {"di_primary", "di_fallback"}
                /\ g.result.dimension = f.result.dimension
                /\ g.result.metric = f.result.metric
                /\ g.result.dimension > 0
                /\ g.result.count >= 0
           /\ (f.pc \in {"di_primary", "di_fallback"} /\ g.outcome = "raised") =>
                g.error = "backend"
    ]_vars

C6_Witness ==
  \E c \in Callers :
    /\ calls[c].op = "describeIndex" /\ calls[c].outcome = "returned"
    /\ calls[c].isServerless = "true"
    /\ calls[c].countCalls = <<"count", "search">>
    /\ calls[c].result = [dimension |-> 4, metric |-> S_euclidean, count |-> 10000]

\* C8: once deploymentChecked is set, isServerless keeps its value.
C8_FlavorImmutable ==
  [][deploymentChecked => isServerless' = isServerless]_vars

\* C10: a createIndex that finds the index existing with the requested
\* dimension and another metric raises and sends no index-create request.
C10_MetricMismatch ==
  [][\A c \in Callers :
       LET f == calls[c]
           index == f.response.index
       IN  (/\ Delivered(c, "ci_validate")
            /\ index.exists /\ index.vector_type = "dense_vector"
            /\ index.dims = f.dimension
            /\ C6_Metric(index) # f.metric) =>
              /\ calls'[c].pc = "done"
              /\ calls'[c].outcome = "raised"
              /\ calls'[c].error = "validation"
              /\ calls'[c].createRequest = NoRequest
    ]_vars

C10_Witness ==
  \E c \in Callers :
    /\ calls[c].op = "createIndex" /\ calls[c].outcome = "raised"
    /\ calls[c].exists = "true" /\ calls[c].error = "validation"
    /\ calls[c].createRequest = NoRequest
    /\ calls[c].metric = S_cosine
    /\ indices[calls[c].indexName].exists
    /\ indices[calls[c].indexName].dims = calls[c].dimension
    /\ indices[calls[c].indexName].similarity = S_l2_norm

\* the cluster-info request of the frame failed
C13_InfoFailed(f) == \E i \in DOMAIN f.failed : f.failed[i] = "info"

\* C13: the step in which a caller's cluster-info request fails sets
\* isServerless to false and deploymentChecked to true and leaves the
\* operation running, detection having returned the standard flavor; in
\* its next step createIndex sends an index-create request with one shard
\* and zero replicas and describeIndex asks for the mapping. Such an
\* operation counts with the statistics
\* call first, raises only with the error of another request or of the
\* mapping checks, and no cluster-info request is issued while or after it
\* runs.
C13_DetectFailure ==
  [][\A c \in Callers :
       LET f == calls[c]
           g == calls'[c]
       IN  /\ (~C13_InfoFailed(f) /\ C13_InfoFailed(g)) =>
                /\ f.pc = "detect_info"
                /\ isServerless' = "false" /\ deploymentChecked' = TRUE
                /\ g.isServerless = "false"
                /\ g.outcome = "none"
                /\ g.pc = "detect_return"
           /\ (C13_InfoFailed(f) /\ Stepped(c, "detect_return")) =>
                /\ g.isServerless = "false"
                /\ g.outcome = "none"
                /\ IF g.op = "createIndex"
                   THEN /\ g.pc = "ci_create"
                        /\ g.createRequest.vector.dims = g.dimension
                        /\ g.createRequest.settings
                             = [number_of_shards |-> 1, number_of_replicas |-> 0]
                   ELSE g.op = "describeIndex" /\ g.pc = "di_mapping"
           /\ C13_InfoFailed(f) =>
                /\ deploymentChecked
                /\ infoRequests' = infoRequests
                /\ f.countCalls # << >> => f.countCalls[1] = "stats"
                /\ f.outcome = "raised" =>
                     \/ f.error \in {"not_vector_index", "no_dims"}
                     \/ \E i \in DOMAIN f.failed : f.failed[i] # "info"
    ]_vars

C13_Witness ==
  \E c, d \in Callers :
    /\ calls[c].op = "createIndex" /\ calls[c].outcome = "returned"
    /\ calls[c].failed = <<"info">>
    /\ indices[calls[c].indexName].exists
    /\ indices[calls[c].indexName].settings = [number_of_shards |-> 1, number_of_replicas |-> 0]
    /\ calls[d].op = "describeIndex" /\ calls[d].outcome = "returned"
    /\ calls[d].detect = "cached" /\ calls[d].countCalls = <<"stats">>
    /\ infoRequests = 1

\* C15: when two callers have each run createIndex for the same index name,
\* dimension and metric, each having found the index absent, and every
\* request of theirs got through to the backend, both calls have returned
\* and the index exists with that dimension.
C15_ConcurrentCreate ==
  \A c, d \in Callers :
    (/\ c # d
     /\ calls[c].op = "createIndex" /\ calls[d].op = "createIndex"
     /\ calls[c].pc = "done" /\ calls[d].pc = "done"
     /\ calls[c].indexName = calls[d].indexName
     /\ calls[c].dimension = calls[d].dimension
     /\ calls[c].metric = calls[d].metric
     /\ calls[c].exists = "false" /\ calls[d].exists = "false"
     /\ calls[c].error # "backend" /\ calls[d].error # "backend") =>
       /\ calls[c].outcome = "returned" /\ calls[d].outcome = "returned"
       /\ indices[calls[c].indexName].exists
       /\ indices[calls[c].indexName].dims = calls[c].dimension

\* C18: the count calls of a describeIndex are the primary call of its
\* flavor (count on serverless, statistics on standard), followed, only
\* when that call failed, by the one fallback call of its flavor (the
\* zero-result search on serverless, count on standard); a describeIndex
\* whose fallback call failed has raised, and one that returned made its
\* last count call successfully. The search asks for no hits and for a
\* total tracked up to the adapter's maxCountAccuracy, and the count
\* describeIndex returns from it is at most that ceiling.
C18_CountStrategy ==
  \A c \in Callers :
    LET f == calls[c]
        primary  == IF f.isServerless = "true" THEN "count" ELSE "stats"
        fallback == IF f.isServerless = "true" THEN "search" ELSE "count"
        failedCount == SelectSeq(f.failed, LAMBDA r : r \in {"count", "stats", "search"})
    IN  f.op = "describeIndex" =>
          /\ f.countCalls \in {<< >>, <<primary>>, <<primary, fallback>>}
          /\ f.countCalls # << >> => f.isServerless \in {"true", "false"}
          /\ failedCount \in {<< >>, <<primary>>, <<primary, fallback>>}
          /\ Len(f.countCalls) = 2 => failedCount # << >>
          /\ Len(failedCount) = 2 => f.pc = "done" /\ f.outcome = "raised"
          /\ (f.pc = "done" /\ f.outcome = "returned") =>
               /\ Len(failedCount) = Len(f.countCalls) - 1
               /\ f.countCalls[Len(f.countCalls)] = "search" =>
                    f.result.count <= maxCountAccuracy
          /\ f.countCalls # << >> =>
               /\ f.countRequest.call = f.countCalls[Len(f.countCalls)]
               /\ f.countRequest.index = f.indexName
               /\ f.countRequest.call = "search" =>
                    /\ f.countRequest.size = 0
                    /\ f.countRequest.track_total_hits = maxCountAccuracy

C18_Witness ==
  \E c, d \in Callers :
    /\ maxCountAccuracy = 15000
    /\ calls[c].op = "describeIndex" /\ calls[c].outcome = "raised"
    /\ calls[c].isServerless = "true"
    /\ calls[c].countCalls = <<"count", "search">>
    /\ calls[c].failed = <<"count", "search">>
    /\ calls[d].op = "describeIndex" /\ calls[d].outcome = "returned"
    /\ calls[d].countCalls = <<"count", "search">>
    /\ calls[d].failed = <<"count">>
    /\ calls[d].countRequest.size = 0
    /\ calls[d].countRequest.track_total_hits = 15000
    /\ calls[d].result.count = 15000

\* C19: the index-create request of a createIndex holds the settings of one
\* shard and zero replicas when the flavor its detection returned is
\* standard, and no settings at all when it is serverless; that flavor is
\* the configured one when one was configured, and for a detection by a
\* cluster-info request it is serverless exactly when the request was
\* answered by a serverless cluster. An index the adapter created has the
\* settings of the request.
C19_StorageLayout ==
  \A c \in Callers :
    LET f == calls[c] IN
    (f.op = "createIndex" /\ f.createRequest # [sent |-> FALSE]) =>
      /\ f.isServerless \in {"true", "false"}
      /\ f.isServerless = "false" =>
           f.createRequest.settings = [number_of_shards |-> 1, number_of_replicas |-> 0]
      /\ f.isServerless = "true" => f.createRequest.settings = [absent |-> TRUE]
      /\ config # "undefined" => f.isServerless = config
      /\ f.detect = "info" =>
           (f.isServerless = "true" <=>
              /\ clusterInfo.build_flavor = "serverless"
              /\ ~\E i \in DOMAIN f.failed : f.failed[i] = "info")
      /\ (f.outcome = "returned" /\ indices[f.indexName].exists
          /\ indices[f.indexName].count = 0
          /\ \A d \in Callers \ {c} : calls[d].op # "createIndex") =>
           indices[f.indexName].settings = f.createRequest.settings

C19_Witness ==
  \E c \in Callers :
    /\ config = "undefined"
    /\ calls[c].op = "createIndex" /\ calls[c].outcome = "returned"
    /\ calls[c].detect = "info" /\ calls[c].isServerless = "true"
    /\ indices[calls[c].indexName].exists
    /\ indices[calls[c].indexName].settings = [absent |-> TRUE]

\* C20: an adapter constructed with isServerless true or false issues no
\* cluster-info request, keeps that value, and every operation of it that
\* has asked for the flavor got the configured one: its index-create
\* request has settings exactly when the value is false, and its first
\* count call is count when the value is true and statistics when false.
C20_ExplicitFlavor ==
  config # "undefined" =>
    /\ infoRequests = 0
    /\ isServerless = config
    /\ \A c \in Callers :
         LET f == calls[c] IN
           /\ f.detect \in {"none", "explicit", "cached"}
           /\ f.detect # "none" => f.isServerless = config
           /\ f.createRequest # [sent |-> FALSE] =>
                (f.createRequest.settings = [absent |-> TRUE] <=> config = "true")
           /\ f.countCalls # << >> =>
                f.countCalls[1] = (IF config = "true" THEN "count" ELSE "stats")

C20_Witness ==
  \E c, d \in Callers :
    /\ config = "true" /\ infoRequests = 0
    /\ calls[c].op = "createIndex" /\ calls[c].outcome = "returned"
    /\ calls[c].detect = "explicit"
    /\ calls[c].createRequest.settings = [absent |-> TRUE]
    /\ calls[d].op = "describeIndex" /\ calls[d].outcome = "returned"
    /\ calls[d].detect = "cached" /\ calls[d].countCalls = <<"count">>

----------------------------------------------------------------------------
(* Properties of SpecDetect *)

\* the word serverless, letter by letter, in lower and in upper case
C21_Lower == <<"s","e","r","v","e","r","l","e","s","s">>
C21_Upper == <<"S","E","R","V","E","R","L","E","S","S">>

\* the text holds the word serverless somewhere, each letter in either case
C21_HasWord(text) ==
  \E i \in 0..(Len(text) - 10) :
    \A k \in 1..10 : text[i + k] \in {C21_Lower[k], C21_Upper[k]}

\* C21: the step in which a caller's cluster-info request is answered
\* caches and returns a flavor that is serverless exactly when the response
\* has a build flavor that is the string 'serverless' or has a tagline
\* holding the word serverless in some letter case; a response with
\* neither, or with neither field, gives standard.
C21_Classification ==
  [][\A c \in DOMAIN calls :
       (/\ calls[c].pc = "detect_info" /\ calls'[c].pc = "detect_return"
        /\ ~C13_InfoFailed(calls'[c])) =>
          /\ isServerless' \in {"true", "false"}
          /\ deploymentChecked'
          /\ calls'[c].isServerless = isServerless'
          /\ isServerless' = "true" <=>
               \/ clusterInfo.has_build_flavor /\ clusterInfo.build_flavor = "serverless"
               \/ clusterInfo.has_tagline /\ C21_HasWord(clusterInfo.tagline)
    ]_vars

C21_Witness ==
  \E c \in DOMAIN calls :
    /\ calls[c].op = "createIndex" /\ calls[c].pc = "detect_return"
    /\ calls[c].detect = "info" /\ calls[c].failed = << >>
    /\ ~clusterInfo.has_build_flavor /\ clusterInfo.has_tagline
    /\ clusterInfo.tagline = <<"S","e","r","v","e","r","l","e","s","s","!">>
    /\ isServerless = "true" /\ deploymentChecked
    /\ calls[c].isServerless = "true"

----------------------------------------------------------------------------
(* Properties of SpecVec *)

\* the positions of a batch of n records that are not in `failed`, ascending
C1_Succeeded(n, failed) == SelectSeq([i \in 1..n |-> i], LAMBDA i : i \notin failed)

\* C1: when the bulk request of an upsert with caller-supplied ids (repeated
\* or not) was answered with M of the N records reported as failed, upsert
\* raises if M = N and otherwise returns the N-M ids of the records that did
\* not fail, in input order.
C1_PartialFailure ==
  (last.op = "upsert" /\ last.responded /\ last.params.has_ids) =>
    LET n == Len(last.params.ids)
        ok == C1_Succeeded(n, last.failed)
    IN  IF Cardinality(last.failed) = n
        THEN last.status = "raised"
        ELSE /\ last.status = "returned"
             /\ last.value = [k \in 1..Len(ok) |-> last.params.ids[ok[k]]]

\* caller c passed from the place `from` of its operation op to `to`
VecStepped(c, op, from, to) ==
  /\ vecCalls[c].op = op /\ vecCalls[c].pc = from
  /\ vecCalls'[c].pc = to

\* C12: an updateVector whose update holds neither field sends no request,
\* returns and changes nothing; any other sends one request, whose document
\* holds the vector exactly when the update does and the metadata exactly
\* when the update does, with the update's values. The backend step that
\* applies the request leaves the stored record the field the update lacks
\* and every other record as it was, and the call returns when the request
\* was answered and raises when it failed.
C12_PartialUpdate ==
  [][\A c \in DOMAIN vecCalls :
       LET f == vecCalls[c]
           g == vecCalls'[c]
       IN  /\ (vecOps' = vecOps + 1 /\ vecCalls' = vecCalls) =>
                /\ last'.op = "updateVector"
                /\ ~last'.update.has_vector /\ ~last'.update.has_metadata
                /\ last'.request = [sent |-> FALSE]
                /\ last'.status = "returned"
                /\ stored' = stored /\ searchable' = searchable
           /\ (f.pc = "idle" /\ g.op = "updateVector") =>
                LET u == g.update IN
                /\ g.pc = "sent"
                /\ u.has_vector \/ u.has_metadata
                /\ g.request.id = g.id
                /\ g.request.doc.has_vector = u.has_vector
                /\ g.request.doc.has_metadata = u.has_metadata
                /\ u.has_vector => g.request.doc.vector = u.vector
                /\ u.has_metadata => g.request.doc.metadata = u.metadata
                /\ stored' = stored /\ searchable' = searchable
           /\ VecStepped(c, "updateVector", "sent", "answered") =>
                IF g.response.ok
                THEN /\ {d.id : d \in stored'} = {d.id : d \in stored}
                     /\ \A d \in stored : \E e \in stored' :
                          /\ e.id = d.id
                          /\ d.id # f.id => e = d
                          /\ ~f.update.has_vector => e.vector = d.vector
                          /\ ~f.update.has_metadata => e.metadata = d.metadata
                          /\ (d.id = f.id /\ f.update.has_vector) =>
                               e.vector = f.update.vector
                          /\ (d.id = f.id /\ f.update.has_metadata) =>
                               f.update.metadata \subseteq e.metadata
                ELSE stored' = stored
           /\ VecStepped(c, "updateVector", "answered", "idle") =>
                /\ last'.op = "updateVector" /\ last'.id = f.id
                /\ last'.request = f.request
                /\ last'.status = (IF f.response.ok THEN "returned" ELSE "raised")
                /\ stored' = stored
    ]_vars

C12_Witness ==
  /\ last.op = "updateVector" /\ last.status = "returned"
  /\ last.id = <<"a">>
  /\ ~last.update.has_vector /\ last.update.has_metadata
  /\ last.request.doc.has_metadata /\ ~last.request.doc.has_vector
  /\ [id |-> <<"a">>, vector |-> <<"u", 0>>,
      metadata |-> {<<"k", 1>>, <<"j", 2>>}] \in stored

\* the fields of a filter that C14 says are skipped: a null or undefined
\* value, or an operator object without any of the seven operators
C14_Skipped(value) ==
  \/ value.kind \in {"null", "undefined"}
  \/ /\ value.kind = "object"
     /\ \A i \in DOMAIN value.props :
          value.props[i][1] \notin {"$eq", "$in", "$ne", "$gt", "$gte", "$lt", "$lte"}

\* the fields of the filter of a query that are not skipped
C14_Kept(params) == SelectSeq(params.filter.props, LAMBDA e : ~C14_Skipped(e[2]))

\* C14: in the search request of a query whose filter is an object, the
\* skipped fields give no clause and the other fields (here literals) give
\* one term clause each, on their own exact-match field; when every field
\* is skipped, or there is none, the request has no filter at all, the
\* backend answers it with every searchable document when it asked for at
\* least as many as there are, and a query the backend answered returns
\* what the backend found.
C14_UnknownOperator ==
  [][\A c \in DOMAIN vecCalls :
       LET f == vecCalls[c]
           g == vecCalls'[c]
       IN  /\ (g.op = "query" /\ g.params.filter.kind = "object") =>
                LET kept == C14_Kept(g.params)
                    flt == g.request.knn.filter
                IN  IF kept = << >>
                    THEN flt = [kind |-> "undefined"]
                    ELSE /\ DOMAIN flt = {"bool"}
                         /\ Len(flt.bool.must) = Len(kept)
                         /\ \A i \in DOMAIN kept :
                              flt.bool.must[i] =
                                [clause |-> "term",
                                 field |-> <<"m","e","t","a","d","a","t","a",".">>
                                             \o kept[i][1]
                                             \o <<".","k","e","y","w","o","r","d">>,
                                 value |-> kept[i][2]]
           /\ (/\ VecStepped(c, "query", "sent", "answered")
               /\ f.params.filter.kind = "object"
               /\ C14_Kept(f.params) = << >>
               /\ g.response.ok
               /\ Len(g.response.hits) < f.request.size) =>
                {g.response.hits[i].id : i \in DOMAIN g.response.hits}
                  = {d.id : d \in searchable}
           /\ (/\ VecStepped(c, "query", "answered", "idle")
               /\ f.params.filter.kind = "object") =>
                /\ last'.op = "query" /\ last'.params = f.params
                /\ last'.request = f.request
                /\ f.response.ok =>
                     /\ last'.status = "returned"
                     /\ Len(last'.value) = Len(f.response.hits)
                     /\ \A i \in DOMAIN last'.value :
                          last'.value[i].id = f.response.hits[i].id
    ]_vars

C14_Witness ==
  /\ last.op = "query" /\ last.status = "returned"
  /\ last.params.filter = Obj(<< <<<<"k">>, Obj(<< <<"$regex", Scalar(1)>> >>)>> >>)
  /\ last.params.topK = 11
  /\ last.request.knn.filter = Undefined
  /\ Len(last.value) = 2
  /\ vecOps = 2

\* C22: an upsert called without ids sends one operation per vector, the
\* i-th with the i-th vector and the i-th generated id; the generated ids
\* of the call differ pairwise, whatever the clock and the random suffixes
\* gave for each vector; and when the bulk request was answered with no
\* failed item, upsert returns exactly these ids, in order.
C22_GeneratedIds ==
  (last.op = "upsert" /\ ~last.params.has_ids) =>
    LET n == Len(last.params.vectors)
        ops == last.request.operations
    IN  /\ Len(last.vectorIds) = n
        /\ Len(ops) = n
        /\ \A i, j \in 1..n : i # j => last.vectorIds[i] # last.vectorIds[j]
        /\ \A i \in 1..n : /\ ops[i]._id = last.vectorIds[i]
                            /\ ops[i].vector = last.params.vectors[i]
        /\ (last.responded /\ last.failed = {}) =>
             /\ last.status = "returned"
             /\ last.value = last.vectorIds
             /\ Cardinality({last.value[i] : i \in 1..n}) = n
             /\ \A i \in 1..n : last.value[i] = ops[i]._id

C22_Witness ==
  /\ last.op = "upsert" /\ ~last.params.has_ids
  /\ last.status = "returned"
  /\ last.value =
       << <<"v","e","c","_","1","0","0","0","_","0","_","k","3","x">>,
          <<"v","e","c","_","1","0","0","1","_","1","_","p","9","q">> >>
  /\ \A i \in 1..2 : \E d \in stored : d.id = last.value[i] /\ d.vector = <<"u", i>>

----------------------------------------------------------------------------
(* Properties of SpecRace *)

C9_Ids(docs) == {d.id : d \in docs}

\* the ids of the documents a search response holds
C9_Hits(response) == {response.hits[i].id : i \in DOMAIN response.hits}

\* C9: every write request carries refresh: true, and a search always sees
\* what the index holds. The backend step that applies a write makes it
\* searchable at once, hence before the write returns: each record of an
\* upsert that did not fail is searchable with the vector written last
\* under its id, an updated record shows the update, a deleted record is
\* gone. A search returns only searchable documents and, without a filter
\* and asking for at least as many as there are, all of them; so the search
\* of a query that runs after a write has returned, no other write being
\* under way, finds each upserted id and the updated record and does not
\* find the deleted one.
C9_ReadAfterWrite ==
  [][/\ searchable = stored /\ searchable' = stored'
     /\ \A c \in DOMAIN vecCalls :
          LET f == vecCalls[c]
              g == vecCalls'[c]
          IN  /\ g.op \in {"upsert", "updateVector", "deleteVector"} =>
                   g.request.refresh = TRUE
              /\ (VecStepped(c, "upsert", "sent", "answered") /\ g.response.ok) =>
                   \A i \in DOMAIN f.request.operations :
                     i \notin FailedItems(g.response) =>
                       \E d \in searchable' :
                         /\ d.id = f.request.operations[i]._id
                         /\ \E j \in DOMAIN f.request.operations :
                              /\ j \notin FailedItems(g.response)
                              /\ f.request.operations[j]._id = d.id
                              /\ f.request.operations[j].vector = d.vector
              /\ (VecStepped(c, "updateVector", "sent", "answered") /\ g.response.ok) =>
                   \E d \in searchable' :
                     /\ d.id = f.id
                     /\ f.update.has_vector => d.vector = f.update.vector
                     /\ f.update.has_metadata => f.update.metadata \subseteq d.metadata
              /\ (VecStepped(c, "deleteVector", "sent", "answered") /\ g.response.ok) =>
                   f.id \notin C9_Ids(searchable')
              /\ (VecStepped(c, "query", "sent", "answered") /\ g.response.ok) =>
                   LET hits == C9_Hits(g.response)
                       all == f.request.knn.filter = Undefined
                                /\ Len(g.response.hits) < f.request.size
                   IN  /\ hits \subseteq C9_Ids(stored)
                       /\ all => hits = C9_Ids(stored)
                       /\ (vecOps = 2 /\ last.op # "none" /\ last.status = "returned") =>
                            /\ (last.op = "upsert" /\ all) =>
                                 \A i \in DOMAIN last.value : last.value[i] \in hits
                            /\ (last.op = "updateVector" /\ last.request # NoRequest /\ all) =>
                                 \E i \in DOMAIN g.response.hits :
                                   LET d == g.response.hits[i] IN
                                   /\ d.id = last.id
                                   /\ last.update.has_vector => d.vector = last.update.vector
                                   /\ last.update.has_metadata =>
                                        last.update.metadata \subseteq d.metadata
                            /\ last.op = "deleteVector" => last.id \notin hits
              /\ VecStepped(c, "query", "answered", "idle") =>
                   /\ last'.op = "query"
                   /\ f.response.ok =>
                        /\ last'.status = "returned"
                        /\ {last'.value[i].id : i \in DOMAIN last'.value}
                             = C9_Hits(f.response)
    ]_vars

\* an upsert has returned the id it generated, and the search of a query
\* that ran after it found the record
C9_Witness ==
  /\ last.op = "upsert" /\ last.status = "returned"
  /\ last.value = << S_vec_1000_0_k3x >>
  /\ \E c \in DOMAIN vecCalls :
       /\ vecCalls[c].op = "query" /\ vecCalls[c].pc = "answered"
       /\ vecCalls[c].response.ok
       /\ S_vec_1000_0_k3x \in C9_Hits(vecCalls[c].response)

----------------------------------------------------------------------------
(* Properties of SpecAll *)

\* the requests of an operation that failed, the cluster-info request of
\* detectServerless left out
C11_Failures(f) == SelectSeq(f.failed, LAMBDA r : r # "info")

\* the operations of SpecVec and SpecFn: a request that was sent and failed
\* made the operation raise
C11_VectorOps ==
  /\ (/\ last.op \in {"upsert", "query", "updateVector", "deleteVector"}
      /\ last.request # [sent |-> FALSE]
      /\ ~last.responded) => last.status = "raised"
  /\ (fnOp = "listIndexes" /\ fnIn.pc \in {"answered", "done"} /\ ~fnIn.response.ok) =>
       \/ fnIn.pc = "answered"
       \/ fnOut = [status |-> "raised"]

\* C11 as stated: an operation in which a backend request other than the
\* cluster-info request of detection failed ends by raising, whichever of
\* the eight operations it is.
C11_FailedCallFails ==
  /\ \A c \in DOMAIN calls :
       (calls[c].pc = "done" /\ C11_Failures(calls[c]) # << >>) =>
          calls[c].outcome = "raised"
  /\ C11_VectorOps

\* C11, amended: the primary count call of describeIndex is a second
\* exception. Any other failed request ends the operation at once with an
\* error; after a failed primary count call describeIndex issues the
\* fallback call, and ends with an error if that fails too. No request is
\* issued a second time after it failed.
C11_FailedCallFailsButCount ==
  /\ \A c \in DOMAIN calls :
       LET f == calls[c]
           nf == C11_Failures(f)
           primary == IF f.isServerless = "true" THEN "count" ELSE "stats"
       IN  /\ \A i, j \in DOMAIN f.failed : f.failed[i] = f.failed[j] => i = j
           /\ nf # << >> =>
                IF f.op = "describeIndex" /\ nf = <<primary>>
                THEN \/ f.pc = "di_fallback"
                     \/ f.pc = "done" /\ f.outcome = "returned"
                ELSE f.pc = "done" /\ f.outcome = "raised" /\ f.error # "none"
  /\ C11_VectorOps

C11_Witness ==
  \E c, d \in DOMAIN calls :
    /\ calls[c].op = "describeIndex" /\ calls[c].outcome = "returned"
    /\ calls[c].failed = <<"stats">> /\ calls[c].countCalls = <<"stats", "count">>
    /\ calls[d].op = "deleteIndex" /\ calls[d].outcome = "raised"
    /\ calls[d].failed = <<"delete">>

====
